---- MODULE Spec2Model ----
(***************************************************************************)
(* Expense tracker: the transaction store, the useTransactions hook        *)
(* (filter / paginate), the useStats aggregator, the transactionService    *)
(* statistics, the category registry (useCategories) and the database      *)
(* initialisation, modelled as a state machine.                            *)
(*                                                                         *)
(* Modelling conventions                                                   *)
(*  - JavaScript strings are TLA+ strings; substring/startsWith are SubSeq *)
(*    on them. `undefined` is the value NULL.                              *)
(*  - amounts are integers; a JavaScript division yields a Num record:     *)
(*    a reduced fraction, or NaN / Infinity when the divisor is 0.         *)
(*    IEEE-754 rounding is not modelled.                                   *)
(*  - a Dexie table is the sequence of its records in primary-key order.   *)
(*  - a JavaScript Map is the sequence of its entries in insertion order.  *)
(*  - a settled promise is a record: resolved with a value (a sequence of  *)
(*    zero or one records) or rejected with the message of the Error.      *)
(***************************************************************************)
EXTENDS Integers, Sequences, FiniteSets, TLC

VARIABLES
    store,          \* db.transactions: records in primary-key (id) order
    nextId,         \* the auto-increment key of db.transactions ('++id')
    globalFilter,   \* settings.globalFilter, as handed to useTransactions
    filters,        \* useTransactions: the `filters` state (local filters)
    page,           \* useTransactions: the `page` state
    pageSize,       \* useTransactions: the `pageSize` option
    now,            \* the wall clock read by `new Date()`: [year, month (0-based)]
    yearMonth,      \* useStats: the `yearMonth` option (NULL when not supplied)
    settings,       \* db.settings: empty, or the single record with id 'settings'
    categories,     \* db.categories: records in primary-key (id) order
    nextCategoryId, \* the auto-increment key of db.categories ('++id')
    tags,           \* db.tags: records in primary-key (id) order
    outcome,        \* how the promise of the latest mutating call settled
    error,          \* the `error` state of each hook (NULL when null)
    failing,        \* the kinds of store operation that reject at present
    isInitialized,  \* useExpenseData: the `isInitialized` state
    isLoading,      \* useExpenseData: the `isLoading` state
    isFormOpen,     \* TransactionsView: the `isFormOpen` state
    editingTransaction, \* TransactionsView: empty, or the transaction edited
    formData,       \* TransactionFormModal: the `formData` state
    amountInput,    \* TransactionFormModal: the `amountInput` state
    isExpense,      \* TransactionFormModal: the `isExpense` state
    calls           \* the asynchronous calls in flight, each at an await

\* the category and tag tables
registry == <<categories, nextCategoryId, tags>>

\* the mount effect's flags
mount == <<isInitialized, isLoading>>

\* the entry form and the view that opens it
modal == <<isFormOpen, editingTransaction, formData, amountInput, isExpense>>

\* what no store operation and no list control touches
client == <<failing, mount, modal, calls>>

vars == <<store, nextId, globalFilter, filters, page, pageSize, now, yearMonth,
          settings, registry, outcome, error, client>>

\* JavaScript `undefined`
NULL == "<undefined>"

\* ------------------------------------------------------------------------
\* Bounds of the model
\* ------------------------------------------------------------------------
MaxKindTx == 2
MaxPageTx == 4
MaxPageSize == 3
MaxPage == 3
MaxTx == 2
MaxTrackTx == 2
MaxRollupTx == 3
MaxTicks == 12
MaxBreakdownTx == 3
MaxTopTx == 6

\* ------------------------------------------------------------------------
\* JavaScript helpers
\* ------------------------------------------------------------------------
Min(a, b) == IF a <= b THEN a ELSE b
Max(a, b) == IF a >= b THEN a ELSE b
Abs(n) == IF n < 0 THEN -n ELSE n

\* a value used as a condition: undefined and '' are falsy
Truthy(s) == s # NULL /\ s # ""

\* String.prototype.startsWith
startsWith(s, prefix) ==
    /\ Len(prefix) <= Len(s)
    /\ SubSeq(s, 1, Len(prefix)) = prefix

\* String.prototype.substring(0, n)
substring0(s, n) == SubSeq(s, 1, Min(n, Len(s)))

Digit == <<"0", "1", "2", "3", "4", "5", "6", "7", "8", "9">>

\* String(n) for a natural number n
RECURSIVE NatToString(_)
NatToString(n) ==
    IF n < 10 THEN Digit[n + 1]
    ELSE NatToString(n \div 10) \o Digit[(n % 10) + 1]

\* String(n).padStart(2, '0')
padStart2(n) ==
    LET s == NatToString(n) IN IF Len(s) < 2 THEN "0" \o s ELSE s

\* `${date.getFullYear()}-${String(date.getMonth() + 1).padStart(2, '0')}`
FormatYearMonth(d) == NatToString(d.year) \o "-" \o padStart2(d.month + 1)

NewDate_noCarry(year, monthIndex) ==
    [year |-> year, month |-> monthIndex % 12]

\* new Date(year, monthIndex, 1): a month index outside 0..11 carries into the year
NewDate(year, monthIndex) ==
    [year |-> (year * 12 + monthIndex) \div 12,
     month |-> (year * 12 + monthIndex) % 12]

\* code unit order of the characters that occur in dates
CharCode(c) ==
    CASE c = "-" -> 0
      [] c = "0" -> 1 [] c = "1" -> 2 [] c = "2" -> 3 [] c = "3" -> 4
      [] c = "4" -> 5 [] c = "5" -> 6 [] c = "6" -> 7 [] c = "7" -> 8
      [] c = "8" -> 9 [] c = "9" -> 10

\* a < b for two different strings, character by character
RECURSIVE StrLessFrom(_, _, _)
StrLessFrom(a, b, i) ==
    IF i > Len(b) THEN FALSE
    ELSE IF i > Len(a) THEN TRUE
    ELSE LET ca == CharCode(SubSeq(a, i, i))
             cb == CharCode(SubSeq(b, i, i))
         IN  IF ca # cb THEN ca < cb ELSE StrLessFrom(a, b, i + 1)

\* a < b in the order of IndexedDB string keys (and of localeCompare on dates)
StrLess(a, b) == a # b /\ StrLessFrom(a, b, 1)

StrLeq(a, b) == a = b \/ StrLess(a, b)

Range(s) == {s[i] : i \in 1..Len(s)}

\* ------------------------------------------------------------------------
\* Transactions and the store (db.transactions)
\* ------------------------------------------------------------------------
SalaryEn == "Salary"
SalaryIt == "Stipendio"

\* db.transactions.add(input): the record gets the next auto-increment id
WithId(input, id) ==
    [id |-> id, date |-> input.date, category |-> input.category,
     subcategory |-> input.subcategory, amount |-> input.amount,
     from |-> input.from, to |-> input.to, note |-> input.note,
     tag |-> input.tag, track |-> input.track]

\* the derived kind of a transaction
getTransactionType_transferFirst(tx) ==
    IF Truthy(tx.from) /\ Truthy(tx.to) /\ tx.from # "" /\ tx.to # ""
    THEN "transfer"
    ELSE IF tx.category = SalaryEn \/ tx.category = SalaryIt \/ tx.amount > 0
    THEN "income"
    ELSE "expense"

getTransactionType(tx) ==
    IF tx.category = SalaryEn \/ tx.category = SalaryIt \/ tx.amount > 0
    THEN "income"
    ELSE IF Truthy(tx.from) /\ Truthy(tx.to) /\ tx.from # "" /\ tx.to # ""
    THEN "transfer"
    ELSE "expense"

\* ------------------------------------------------------------------------
\* JavaScript numbers that come out of a division
\* ------------------------------------------------------------------------
RECURSIVE GCD(_, _)
GCD(a, b) == IF b = 0 THEN a ELSE GCD(b, a % b)

NaN == [kind |-> "NaN", n |-> 0, d |-> 0]
Infinity(sign) == [kind |-> "Infinity", n |-> sign, d |-> 0]

\* the fraction n / d in lowest terms, d > 0
Fraction(n, d) ==
    LET g == GCD(Abs(n), d)
    IN  [kind |-> "num", n |-> n \div g, d |-> d \div g]

Num(n) == Fraction(n, 1)

\* a / b for integers a and b
JSDiv(a, b) ==
    IF b = 0
    THEN IF a = 0 THEN NaN ELSE Infinity(IF a > 0 THEN 1 ELSE -1)
    ELSE IF b > 0 THEN Fraction(a, b) ELSE Fraction(-a, -b)

\* x * k for a positive integer k
JSTimes(x, k) == IF x.kind = "num" THEN Fraction(x.n * k, x.d) ELSE x

\* Number.isNaN
isNaN(x) == x.kind = "NaN"

\* ------------------------------------------------------------------------
\* Arrays
\* ------------------------------------------------------------------------
Reverse(s) == [i \in 1..Len(s) |-> s[Len(s) + 1 - i]]

\* Array.prototype.slice(start, end)
slice(s, start, end) ==
    LET len == Len(s)
        k == IF start < 0 THEN Max(len + start, 0) ELSE Min(start, len)
        e == IF end < 0 THEN Max(len + end, 0) ELSE Min(end, len)
    IN  SubSeq(s, k + 1, e)

\* ------------------------------------------------------------------------
\* transactionService.getAll
\* ------------------------------------------------------------------------
\* insert tx into a date-ordered sequence, after the records with the same date
RECURSIVE InsertByDate(_, _)
InsertByDate(sorted, tx) ==
    IF sorted = <<>> THEN <<tx>>
    ELSE IF StrLess(tx.date, Head(sorted).date) THEN <<tx>> \o sorted
    ELSE <<Head(sorted)>> \o InsertByDate(Tail(sorted), tx)

\* the 'date' index of a table: date ascending, primary key ascending among
\* equal dates (the table is in primary-key order)
RECURSIVE DateIndex(_)
DateIndex(table) ==
    IF table = <<>> THEN <<>>
    ELSE InsertByDate(DateIndex(SubSeq(table, 1, Len(table) - 1)),
                      table[Len(table)])

between_exclusive(table, lower, upper) ==
    SelectSeq(DateIndex(table),
              LAMBDA tx : StrLess(lower, tx.date) /\ StrLess(tx.date, upper))

\* where('date').between(lower, upper, true, true)
between(table, lower, upper) ==
    SelectSeq(DateIndex(table),
              LAMBDA tx : StrLeq(lower, tx.date) /\ StrLeq(tx.date, upper))

\* where('date').aboveOrEqual(lower)
aboveOrEqual(table, lower) ==
    SelectSeq(DateIndex(table), LAMBDA tx : StrLeq(lower, tx.date))

\* where('date').belowOrEqual(upper)
belowOrEqual(table, upper) ==
    SelectSeq(DateIndex(table), LAMBDA tx : StrLeq(tx.date, upper))

\* a call without a filter is the call with noGlobalFilter: filter?.enabled is
\* undefined, which is falsy
noGlobalFilter == [enabled |-> FALSE, startDate |-> NULL, endDate |-> NULL]

getAll(table, filter) ==
    IF filter.enabled
    THEN IF Truthy(filter.startDate) /\ Truthy(filter.endDate)
         THEN Reverse(between(table, filter.startDate, filter.endDate))
         ELSE IF Truthy(filter.startDate)
         THEN Reverse(aboveOrEqual(table, filter.startDate))
         ELSE IF Truthy(filter.endDate)
         THEN Reverse(belowOrEqual(table, filter.endDate))
         ELSE Reverse(DateIndex(table))
    ELSE Reverse(DateIndex(table))

\* ------------------------------------------------------------------------
\* useTransactions: the derived values of the hook
\* ------------------------------------------------------------------------
\* String.prototype.toLowerCase, one character
LowerChar(c) ==
    CASE c = "A" -> "a" [] c = "B" -> "b" [] c = "C" -> "c" [] c = "D" -> "d"
      [] c = "E" -> "e" [] c = "F" -> "f" [] c = "G" -> "g" [] c = "H" -> "h"
      [] c = "I" -> "i" [] c = "J" -> "j" [] c = "K" -> "k" [] c = "L" -> "l"
      [] c = "M" -> "m" [] c = "N" -> "n" [] c = "O" -> "o" [] c = "P" -> "p"
      [] c = "Q" -> "q" [] c = "R" -> "r" [] c = "S" -> "s" [] c = "T" -> "t"
      [] c = "U" -> "u" [] c = "V" -> "v" [] c = "W" -> "w" [] c = "X" -> "x"
      [] c = "Y" -> "y" [] c = "Z" -> "z" [] OTHER -> c

RECURSIVE toLowerCase(_)
toLowerCase(s) ==
    IF Len(s) = 0 THEN ""
    ELSE LowerChar(SubSeq(s, 1, 1)) \o toLowerCase(SubSeq(s, 2, Len(s)))

\* String.prototype.includes
includes(s, part) ==
    \E i \in 1..(Len(s) + 1) :
        /\ i + Len(part) - 1 <= Len(s)
        /\ SubSeq(s, i, i + Len(part) - 1) = part

matchesSearch_caseSensitive(tx, searchLower) ==
    \/ includes(tx.category, searchLower)
    \/ includes(tx.subcategory, searchLower)
    \/ (tx.note # NULL /\ includes(tx.note, searchLower))
    \/ includes(tx.from, searchLower)
    \/ includes(tx.to, searchLower)

\* the search predicate of filteredTransactions
matchesSearch(tx, searchLower) ==
    \/ includes(toLowerCase(tx.category), searchLower)
    \/ includes(toLowerCase(tx.subcategory), searchLower)
    \/ (tx.note # NULL /\ includes(toLowerCase(tx.note), searchLower))
    \/ includes(toLowerCase(tx.from), searchLower)
    \/ includes(toLowerCase(tx.to), searchLower)

filteredTransactions(transactions, f) ==
    LET r1 == IF Truthy(f.category)
              THEN SelectSeq(transactions, LAMBDA tx : tx.category = f.category)
              ELSE transactions
        r2 == IF Truthy(f.subcategory)
              THEN SelectSeq(r1, LAMBDA tx : tx.subcategory = f.subcategory)
              ELSE r1
        r3 == IF Truthy(f.tag)
              THEN SelectSeq(r2, LAMBDA tx : tx.tag = f.tag)
              ELSE r2
        r4 == IF Truthy(f.type)
              THEN SelectSeq(r3, LAMBDA tx : getTransactionType(tx) = f.type)
              ELSE r3
        r5 == IF Truthy(f.yearMonth)
              THEN SelectSeq(r4, LAMBDA tx : startsWith(tx.date, f.yearMonth))
              ELSE r4
        r6 == IF Truthy(f.search)
              THEN SelectSeq(r5, LAMBDA tx :
                                 matchesSearch(tx, toLowerCase(f.search)))
              ELSE r5
    IN  r6

\* Math.ceil(n / p) for n >= 0 and p >= 1
CeilDiv(n, p) == (n + p - 1) \div p

totalPages(filtered, size) == CeilDiv(Len(filtered), size)

paginatedTransactions_zeroBased(filtered, p, size) ==
    slice(filtered, p * size, p * size + size)

paginatedTransactions(filtered, p, size) ==
    slice(filtered, (p - 1) * size, (p - 1) * size + size)

\* ------------------------------------------------------------------------
\* JavaScript Map: a sequence of [key, value] entries in insertion order
\* ------------------------------------------------------------------------
MapHas(map, key) == \E i \in 1..Len(map) : map[i].key = key
MapIndex(map, key) == CHOOSE i \in 1..Len(map) : map[i].key = key
MapGet(map, key) == map[MapIndex(map, key)].value
MapSet(map, key, value) ==
    IF MapHas(map, key)
    THEN [map EXCEPT ![MapIndex(map, key)] = [key |-> key, value |-> value]]
    ELSE Append(map, [key |-> key, value |-> value])

\* ------------------------------------------------------------------------
\* useStats
\* ------------------------------------------------------------------------
MonthsInWindow == 12
MonthsInYear == 12
TopCount == 5

getCurrentYearMonth(clock) == FormatYearMonth(clock)

monthTransactions_noTrack(transactions, ym, clock) ==
    LET targetMonth == IF ym # NULL THEN ym ELSE getCurrentYearMonth(clock)
    IN  SelectSeq(transactions, LAMBDA tx : startsWith(tx.date, targetMonth))

\* tx.date.startsWith(targetMonth) && tx.track
monthTransactions(transactions, ym, clock) ==
    LET targetMonth == IF ym # NULL THEN ym ELSE getCurrentYearMonth(clock)
    IN  SelectSeq(transactions,
                  LAMBDA tx : startsWith(tx.date, targetMonth) /\ tx.track)

AddAmount_signed(acc, amount) ==
    IF amount > 0
    THEN [acc EXCEPT !.income = @ + amount]
    ELSE [acc EXCEPT !.expenses = @ + amount]

\* one step of the income / expenses accumulation
AddAmount(acc, amount) ==
    IF amount > 0
    THEN [acc EXCEPT !.income = @ + amount]
    ELSE [acc EXCEPT !.expenses = @ + Abs(amount)]

RECURSIVE SumAmounts(_, _)
SumAmounts(acc, txs) ==
    IF txs = <<>> THEN acc
    ELSE SumAmounts(AddAmount(acc, Head(txs).amount), Tail(txs))

\* { totalIncome, totalExpenses } of the month
monthTotals(monthTxs) == SumAmounts([income |-> 0, expenses |-> 0], monthTxs)

\* totalIncome > 0 ? ((totalIncome - totalExpenses) / totalIncome) * 100 : 0
savingsRateOf(income, expenses) ==
    IF income > 0 THEN JSTimes(JSDiv(income - expenses, income), 100)
    ELSE Num(0)

\* statsMap after the first i iterations of the initialisation loop
RECURSIVE InitMonths(_, _)
InitMonths(clock, i) ==
    IF i = 0 THEN <<>>
    ELSE MapSet(InitMonths(clock, i - 1),
                FormatYearMonth(NewDate(clock.year, clock.month - (i - 1))),
                [income |-> 0, expenses |-> 0])

RECURSIVE AggregateMonths(_, _)
AggregateMonths(statsMap, txs) ==
    IF txs = <<>> THEN statsMap
    ELSE LET tx == Head(txs)
             month == substring0(tx.date, 7)
         IN  AggregateMonths(
                 IF MapHas(statsMap, month)
                 THEN MapSet(statsMap, month,
                             AddAmount(MapGet(statsMap, month), tx.amount))
                 ELSE statsMap,
                 Tail(txs))

\* Array.prototype.sort((a, b) => a.month.localeCompare(b.month)), stable
RECURSIVE InsertByMonth(_, _)
InsertByMonth(sorted, x) ==
    IF sorted = <<>> THEN <<x>>
    ELSE IF StrLess(x.month, Head(sorted).month) THEN <<x>> \o sorted
    ELSE <<Head(sorted)>> \o InsertByMonth(Tail(sorted), x)

RECURSIVE SortByMonth(_)
SortByMonth(s) ==
    IF s = <<>> THEN <<>>
    ELSE InsertByMonth(SortByMonth(SubSeq(s, 1, Len(s) - 1)), s[Len(s)])

monthlyStats(transactions, clock) ==
    LET statsMap ==
            AggregateMonths(InitMonths(clock, MonthsInWindow),
                            SelectSeq(transactions, LAMBDA tx : tx.track))
        rows == [i \in 1..Len(statsMap) |->
                    [month |-> statsMap[i].key,
                     income |-> statsMap[i].value.income,
                     expenses |-> statsMap[i].value.expenses,
                     savings |-> statsMap[i].value.income
                                   - statsMap[i].value.expenses,
                     savingsRate |-> savingsRateOf(statsMap[i].value.income,
                                                   statsMap[i].value.expenses)]]
    IN  SortByMonth(rows)

AddExpense_subOverwrite(statsMap, tx) ==
    LET amount == Abs(tx.amount)
        categoryData ==
            IF MapHas(statsMap, tx.category) THEN MapGet(statsMap, tx.category)
            ELSE [subcategories |-> <<>>, totalAmount |-> 0, totalCount |-> 0]
    IN  MapSet(statsMap, tx.category,
               [subcategories |->
                    MapSet(categoryData.subcategories, tx.subcategory,
                           [amount |-> amount, count |-> 1]),
                totalAmount |-> categoryData.totalAmount + amount,
                totalCount |-> categoryData.totalCount + 1])

\* the per-category accumulation over the expenses of the month
AddExpense(statsMap, tx) ==
    LET amount == Abs(tx.amount)
        categoryData ==
            IF MapHas(statsMap, tx.category) THEN MapGet(statsMap, tx.category)
            ELSE [subcategories |-> <<>>, totalAmount |-> 0, totalCount |-> 0]
        subData ==
            IF MapHas(categoryData.subcategories, tx.subcategory)
            THEN MapGet(categoryData.subcategories, tx.subcategory)
            ELSE [amount |-> 0, count |-> 0]
    IN  MapSet(statsMap, tx.category,
               [subcategories |->
                    MapSet(categoryData.subcategories, tx.subcategory,
                           [amount |-> subData.amount + amount,
                            count |-> subData.count + 1]),
                totalAmount |-> categoryData.totalAmount + amount,
                totalCount |-> categoryData.totalCount + 1])

RECURSIVE AggregateCategories(_, _)
AggregateCategories(statsMap, txs) ==
    IF txs = <<>> THEN statsMap
    ELSE AggregateCategories(AddExpense(statsMap, Head(txs)), Tail(txs))

\* reduce((sum, cat) => sum + cat.totalAmount, 0)
RECURSIVE SumTotalAmount(_)
SumTotalAmount(statsMap) ==
    IF statsMap = <<>> THEN 0
    ELSE Head(statsMap).value.totalAmount + SumTotalAmount(Tail(statsMap))

RECURSIVE InsertByTotalDesc_tiesFirst(_, _)
InsertByTotalDesc_tiesFirst(sorted, x) ==
    IF sorted = <<>> THEN <<x>>
    ELSE IF x.totalAmount >= Head(sorted).totalAmount THEN <<x>> \o sorted
    ELSE <<Head(sorted)>> \o InsertByTotalDesc_tiesFirst(Tail(sorted), x)

\* Array.prototype.sort((a, b) => b.totalAmount - a.totalAmount), stable
RECURSIVE InsertByTotalDesc(_, _)
InsertByTotalDesc(sorted, x) ==
    IF sorted = <<>> THEN <<x>>
    ELSE IF x.totalAmount > Head(sorted).totalAmount THEN <<x>> \o sorted
    ELSE <<Head(sorted)>> \o InsertByTotalDesc(Tail(sorted), x)

RECURSIVE SortByTotalDesc(_)
SortByTotalDesc(s) ==
    IF s = <<>> THEN <<>>
    ELSE InsertByTotalDesc(SortByTotalDesc(SubSeq(s, 1, Len(s) - 1)), s[Len(s)])

RECURSIVE totalCategoryExpenses_largest(_)
totalCategoryExpenses_largest(statsMap) ==
    IF statsMap = <<>> THEN 0
    ELSE LET rest == totalCategoryExpenses_largest(Tail(statsMap))
         IN  Max(Head(statsMap).value.totalAmount, rest)

\* the denominator of the percentages
totalCategoryExpenses(statsMap) == SumTotalAmount(statsMap)

categoryStats(monthTxs) ==
    LET statsMap ==
            AggregateCategories(<<>>,
                                SelectSeq(monthTxs, LAMBDA tx : tx.amount < 0))
        total == totalCategoryExpenses(statsMap)
        rows == [i \in 1..Len(statsMap) |->
                    [category |-> statsMap[i].key,
                     subcategories |->
                         [j \in 1..Len(statsMap[i].value.subcategories) |->
                             [name |-> statsMap[i].value.subcategories[j].key,
                              amount |->
                                  statsMap[i].value.subcategories[j].value.amount,
                              count |->
                                  statsMap[i].value.subcategories[j].value.count]],
                     totalAmount |-> statsMap[i].value.totalAmount,
                     totalCount |-> statsMap[i].value.totalCount,
                     percentage |->
                         IF total > 0
                         THEN JSTimes(JSDiv(statsMap[i].value.totalAmount, total),
                                      100)
                         ELSE Num(0)]]
    IN  SortByTotalDesc(rows)

topCategories(stats) == slice(stats, 0, TopCount)

averageTransaction_noGuard(monthTxs) ==
    IF Len(monthTxs) > 0
    THEN JSDiv(monthTotals(monthTxs).expenses,
               Len(SelectSeq(monthTxs, LAMBDA tx : tx.amount < 0)))
    ELSE Num(0)

\* transactionCount > 0 ? totalExpenses / (number of expenses) : 0, NaN -> 0
averageTransaction(monthTxs) ==
    LET raw == IF Len(monthTxs) > 0
               THEN JSDiv(monthTotals(monthTxs).expenses,
                          Len(SelectSeq(monthTxs, LAMBDA tx : tx.amount < 0)))
               ELSE Num(0)
    IN  IF isNaN(raw) THEN Num(0) ELSE raw

useStats(transactions, ym, clock) ==
    LET monthTxs == monthTransactions(transactions, ym, clock)
        totals == monthTotals(monthTxs)
        stats == categoryStats(monthTxs)
    IN  [totalIncome |-> totals.income,
         totalExpenses |-> totals.expenses,
         balance |-> totals.income - totals.expenses,
         savingsRate |-> savingsRateOf(totals.income, totals.expenses),
         monthlyStats |-> monthlyStats(transactions, clock),
         categoryStats |-> stats,
         topCategories |-> topCategories(stats),
         transactionCount |-> Len(monthTxs),
         averageTransaction |-> averageTransaction(monthTxs)]

\* ------------------------------------------------------------------------
\* transactionService: statistics over a date range
\* ------------------------------------------------------------------------
getStats(table, startDate, endDate) ==
    LET transactions == SelectSeq(between(table, startDate, endDate),
                                  LAMBDA t : t.track)
        totals == SumAmounts([income |-> 0, expenses |-> 0], transactions)
    IN  [totalIncome |-> totals.income,
         totalExpenses |-> totals.expenses,
         transactionCount |-> Len(transactions),
         netBalance |-> totals.income - totals.expenses]

\* acc[t.category] = (acc[t.category] ?? 0) + Math.abs(t.amount)
RECURSIVE SumByCategory(_, _)
SumByCategory(acc, txs) ==
    IF txs = <<>> THEN acc
    ELSE LET t == Head(txs)
             old == IF t.category \in DOMAIN acc THEN acc[t.category] ELSE 0
         IN  SumByCategory(
                 [c \in DOMAIN acc \cup {t.category} |->
                     IF c = t.category THEN old + Abs(t.amount) ELSE acc[c]],
                 Tail(txs))

getCategoryBreakdown(table, startDate, endDate, type) ==
    SumByCategory(
        [c \in {} |-> 0],
        SelectSeq(between(table, startDate, endDate),
                  LAMBDA t : IF ~t.track THEN FALSE
                             ELSE IF type = "income" THEN t.amount > 0
                             ELSE t.amount < 0))

\* monthlyMap after months 1..m of the initialisation loop
RECURSIVE InitYear(_, _)
InitYear(year, m) ==
    IF m = 0 THEN <<>>
    ELSE MapSet(InitYear(year, m - 1),
                NatToString(year) \o "-" \o padStart2(m),
                [income |-> 0, expenses |-> 0])

getMonthlyTotals(table, year) ==
    LET transactions ==
            SelectSeq(between(table, NatToString(year) \o "-01-01",
                              NatToString(year) \o "-12-31"),
                      LAMBDA t : t.track)
        monthlyMap == AggregateMonths(InitYear(year, MonthsInYear), transactions)
        rows == [i \in 1..Len(monthlyMap) |->
                    [month |-> monthlyMap[i].key,
                     income |-> monthlyMap[i].value.income,
                     expenses |-> monthlyMap[i].value.expenses]]
    IN  SortByMonth(rows)

\* ------------------------------------------------------------------------
\* The database: settings, categories and tags, and initializeDatabase
\* ------------------------------------------------------------------------
\* the record initializeDatabase puts when db.settings has none
defaultSettingsRecord ==
    [id |-> "settings",
     globalFilter |-> [enabled |-> FALSE, startDate |-> NULL, endDate |-> NULL],
     userSettings |-> [locale |-> "en", currency |-> "EUR", savingsGoal |-> 20],
     lastSync |-> NULL]

defaultCategories ==
    <<[name |-> "Salary", subcategories |-> <<"Fixed", "Bonus", "Other">>],
      [name |-> "Home",
       subcategories |-> <<"Rent", "Mortgage", "Utilities", "Maintenance",
                           "Furniture", "Other">>],
      [name |-> "Groceries",
       subcategories |-> <<"Supermarket", "Fruits/Vegetables", "Meat/Fish",
                           "Other">>],
      [name |-> "Transportation",
       subcategories |-> <<"Fuel", "Public transit", "Car maintenance",
                           "Insurance", "Parking", "Other">>],
      [name |-> "Health",
       subcategories |-> <<"Doctor", "Pharmacy", "Gym", "Other">>],
      [name |-> "Entertainment",
       subcategories |-> <<"Restaurants", "Cinema/Theater", "Travel",
                           "Hobbies", "Other">>],
      [name |-> "Clothing",
       subcategories |-> <<"Clothes", "Shoes", "Accessories", "Other">>],
      [name |-> "Technology",
       subcategories |-> <<"Electronics", "Software", "Phone", "Other">>],
      [name |-> "Education", subcategories |-> <<"Courses", "Books", "Other">>],
      [name |-> "Gifts", subcategories |-> <<"Family", "Friends", "Other">>],
      [name |-> "Taxes",
       subcategories |-> <<"Income tax", "Property tax", "Car tax", "Other">>],
      [name |-> "Investments",
       subcategories |-> <<"Stocks", "Funds", "Crypto", "Other">>],
      [name |-> "Other", subcategories |-> <<"Miscellaneous", "Unexpected">>]>>

defaultTags ==
    <<[name |-> "Urgent"], [name |-> "Recurring"], [name |-> "Optional"],
      [name |-> "Deductible"]>>

bulkPut_dropsLast(table, nextKey, items) ==
    table \o [i \in 1..(Len(items) - 1) |-> [id |-> nextKey + i - 1] @@ items[i]]

\* table.bulkPut(items) for items without a key: each gets the next
\* auto-increment key, in order
bulkPut(table, nextKey, items) ==
    table \o [i \in 1..Len(items) |-> [id |-> nextKey + i - 1] @@ items[i]]

\* the auto-increment key a table without deletions will hand out next
NextKey(table) == Len(table) + 1

\* the four parts of the database that initializeDatabase reads and writes
Database ==
    [settings |-> settings, categories |-> categories,
     nextCategoryId |-> nextCategoryId, tags |-> tags]

initializeDatabaseOn_reseed(db) ==
    [settings |-> <<defaultSettingsRecord>>,
     categories |-> bulkPut(<<>>, db.nextCategoryId, defaultCategories),
     nextCategoryId |-> db.nextCategoryId + Len(defaultCategories),
     tags |-> bulkPut(<<>>, 1, defaultTags)]

\* the database after initializeDatabase() has run on the database db
initializeDatabaseOn(db) ==
    LET existingSettings == db.settings
        categoryCount == Len(db.categories)
        tagCount == Len(db.tags)
    IN  [settings |-> IF existingSettings = <<>>
                      THEN <<defaultSettingsRecord>>
                      ELSE db.settings,
         categories |-> IF categoryCount = 0
                        THEN bulkPut(db.categories, db.nextCategoryId,
                                     defaultCategories)
                        ELSE db.categories,
         nextCategoryId |-> IF categoryCount = 0
                            THEN db.nextCategoryId + Len(defaultCategories)
                            ELSE db.nextCategoryId,
         tags |-> IF tagCount = 0
                  THEN bulkPut(db.tags, NextKey(db.tags), defaultTags)
                  ELSE db.tags]

\* a fresh browser profile: nothing stored yet
emptyDatabase ==
    [settings |-> <<>>, categories |-> <<>>, nextCategoryId |-> 1, tags |-> <<>>]

\* how a promise settled: resolved with a value (<<>> for void), or rejected
\* with an Error carrying a message
noOutcome == [status |-> "none", message |-> "", value |-> <<>>]
resolved(value) == [status |-> "resolved", message |-> "", value |-> value]
rejected(message) == [status |-> "rejected", message |-> message, value |-> <<>>]

\* the message of the Error a failing store operation rejects with
StoreError == "StoreIOError"

\* the store operations that reject at present
ReadFails == "read" \in failing
WriteFails == "write" \in failing

\* a mutator of a hook returns: its promise resolves with the value
Returns(value) ==
    /\ outcome' = resolved(value)
    /\ UNCHANGED error

\* catch (err) { setError(error); throw error }: the hook keeps the Error and
\* the promise rejects with it
Throws(hook, message) ==
    /\ outcome' = rejected(message)
    /\ error' = [error EXCEPT ![hook] = message]

\* catch (err) { setError(...) } without a throw: the hook keeps the Error and
\* the promise resolves
Swallows(hook, message) ==
    /\ outcome' = resolved(<<>>)
    /\ error' = [error EXCEPT ![hook] = message]

noErrors ==
    [useExpenseData |-> NULL, useTransactions |-> NULL, useCategories |-> NULL]

\* whether initializeDatabase() on the database db meets a store operation
\* that rejects: its reads come first, and it writes a table only when that
\* table has nothing in it
initializeDatabaseFails(db) ==
    \/ ReadFails
    \/ /\ WriteFails
       /\ db.settings = <<>> \/ db.categories = <<>> \/ db.tags = <<>>

\* `new Date().toISOString().split('T')[0]`; the model's clock counts months
today(clock) == FormatYearMonth(clock) \o "-01"

\* TransactionFormModal: the initial `formData`, also set when the form opens
\* without initialData
blankFormData(clock) ==
    [date |-> today(clock), category |-> "", subcategory |-> "", amount |-> 0,
     from |-> "", to |-> "", note |-> "", tag |-> "", track |-> TRUE]

\* the hooks and the entry form as they are when nothing has happened yet;
\* initialized tells whether the mount effect of useExpenseData has completed
InitClient(initialized) ==
    /\ outcome = noOutcome
    /\ error = noErrors
    /\ failing = {}
    /\ isInitialized = initialized
    /\ isLoading = ~initialized
    /\ isFormOpen = FALSE
    /\ editingTransaction = <<>>
    /\ formData = blankFormData(now)
    /\ amountInput = ""
    /\ isExpense = TRUE
    /\ calls = <<>>

\* the database once the mount effect of useExpenseData has completed
InitDatabase ==
    LET db == initializeDatabaseOn(emptyDatabase)
    IN  /\ settings = db.settings
        /\ categories = db.categories
        /\ nextCategoryId = db.nextCategoryId
        /\ tags = db.tags
        /\ InitClient(TRUE)

\* ------------------------------------------------------------------------
\* Initial state: an empty store, the default settings, a fresh hook
\* ------------------------------------------------------------------------
defaultFilter == [enabled |-> FALSE, startDate |-> NULL, endDate |-> NULL]

noFilters ==
    [category |-> NULL, subcategory |-> NULL, tag |-> NULL,
     search |-> NULL, type |-> NULL, yearMonth |-> NULL]

DefaultPageSize == 20

Clock0 == [year |-> 2024, month |-> 2]

InitBase ==
    /\ store = <<>>
    /\ nextId = 1
    /\ globalFilter = defaultFilter
    /\ filters = noFilters
    /\ page = 1
    /\ pageSize = DefaultPageSize
    /\ now = Clock0
    /\ yearMonth = NULL
    /\ InitDatabase

\* ------------------------------------------------------------------------
\* The values the client renders from the current state
\* ------------------------------------------------------------------------
Transactions_stale == getAll(store, globalFilter)

\* useTransactions: the live query of all transactions,
\* try { getAll(globalFilter) } catch { [] }
Transactions == IF ReadFails THEN <<>> ELSE getAll(store, globalFilter)

\* useExpenseData: the live query of the transactions
liveTransactions ==
    IF ~isInitialized \/ ReadFails THEN <<>> ELSE Reverse(DateIndex(store))

\* records.forEach((record) => { cats[record.name] = record.subcategories })
categoriesOf(records) ==
    [name \in {r.name : r \in Range(records)} |->
        LET last == CHOOSE i \in 1..Len(records) :
                       /\ records[i].name = name
                       /\ \A j \in (i + 1)..Len(records) : records[j].name # name
        IN  records[last].subcategories]

\* the Categories object without a key: {}
noCategories == categoriesOf(<<>>)

\* useExpenseData: the live query of the categories
liveCategories ==
    IF ~isInitialized \/ ReadFails THEN noCategories ELSE categoriesOf(categories)

\* useExpenseData: the live query of the tags
liveTags ==
    IF ~isInitialized \/ ReadFails
    THEN <<>>
    ELSE [i \in 1..Len(tags) |-> tags[i].name]

\* useExpenseData: the live query of the settings record (null as <<>>)
settingsData == IF ~isInitialized \/ ReadFails THEN <<>> ELSE settings

defaultSettings == [locale |-> "en", currency |-> "EUR", savingsGoal |-> 20]

\* useExpenseData returns settingsData?.globalFilter ?? defaultFilter
liveGlobalFilter ==
    IF settingsData = <<>> THEN defaultFilter ELSE settingsData[1].globalFilter

\* useExpenseData returns settingsData?.userSettings ?? defaultSettings
liveSettings ==
    IF settingsData = <<>> THEN defaultSettings ELSE settingsData[1].userSettings

\* useCategories: the live query of the category records
categoryRecords == IF ReadFails THEN <<>> ELSE categories

\* useCategories: the Categories object built from the records
hookCategories == categoriesOf(categoryRecords)

Filtered == filteredTransactions(Transactions, filters)

TotalPages == totalPages(Filtered, pageSize)

Paginated == paginatedTransactions(Filtered, page, pageSize)

\* ExpenseTrackerClient: const stats = useStats({ transactions })
ClientStats_fromFiltered == useStats(Filtered, NULL, now)

ClientStats == useStats(Transactions, NULL, now)

\* useStats({ transactions, yearMonth }) on the hook's transactions
Stats == useStats(Transactions, yearMonth, now)

\* ------------------------------------------------------------------------
\* Actions
\* ------------------------------------------------------------------------
\* transactionService.create inside the try/catch of addTransaction: what the
\* call does to the table and how its promise settles
create(input) ==
    LET transaction == WithId(input, nextId)
    IN  IF WriteFails
        THEN /\ Throws("useTransactions", StoreError)
             /\ UNCHANGED <<store, nextId>>
        ELSE /\ store' = Append(store, transaction)
             /\ nextId' = nextId + 1
             /\ IF ReadFails
                THEN Throws("useTransactions", StoreError)
                ELSE Returns(<<transaction>>)

\* transactionService.create / useTransactions.addTransaction
addTransaction(input) ==
    /\ create(input)
    /\ UNCHANGED <<globalFilter, filters, page, pageSize, now, yearMonth,
                   settings, registry, client>>

\* transactionService.delete / useTransactions.deleteTransaction
deleteTransaction(id) ==
    /\ IF WriteFails
       THEN /\ Throws("useTransactions", StoreError)
            /\ UNCHANGED store
       ELSE /\ store' = SelectSeq(store, LAMBDA tx : tx.id # id)
            /\ Returns(<<>>)
    /\ UNCHANGED <<nextId, globalFilter, filters, page, pageSize, now, yearMonth,
                   settings, registry, client>>

setFilters_keepPage(newFilters) ==
    /\ filters' = newFilters
    /\ UNCHANGED <<store, nextId, globalFilter, page, pageSize, now, yearMonth,
                   settings, registry, outcome,
                   error, client>>

\* useTransactions.setFilters
setFilters(newFilters) ==
    /\ filters' = newFilters
    /\ page' = 1
    /\ UNCHANGED <<store, nextId, globalFilter, pageSize, now, yearMonth,
                 settings, registry, outcome,
                   error, client>>

clearFilters_keepSearch ==
    /\ filters' = [noFilters EXCEPT !.search = filters.search]
    /\ page' = 1
    /\ UNCHANGED <<store, nextId, globalFilter, pageSize, now, yearMonth,
                   settings, registry, outcome,
                   error, client>>

\* useTransactions.clearFilters
clearFilters ==
    /\ filters' = noFilters
    /\ page' = 1
    /\ UNCHANGED <<store, nextId, globalFilter, pageSize, now, yearMonth,
                 settings, registry, outcome,
                   error, client>>

setPage_clamped(p) ==
    /\ page' = Max(1, Min(p, TotalPages))
    /\ UNCHANGED <<store, nextId, globalFilter, filters, pageSize, now, yearMonth,
                   settings, registry, outcome,
                   error, client>>

\* useTransactions.setPage
setPage(p) ==
    /\ page' = p
    /\ UNCHANGED <<store, nextId, globalFilter, filters, pageSize, now, yearMonth,
                 settings, registry, outcome,
                   error, client>>

\* { ...current, ...patch }
Merge(current, patch) ==
    [k \in DOMAIN current \cup DOMAIN patch |->
        IF k \in DOMAIN patch THEN patch[k] ELSE current[k]]

\* useExpenseData.updateGlobalFilter: { ...current.globalFilter, ...filter }
updateGlobalFilter(filter) ==
    /\ IF ReadFails \/ (settings # <<>> /\ WriteFails)
       THEN /\ Swallows("useExpenseData", StoreError)
            /\ UNCHANGED <<settings, globalFilter>>
       ELSE /\ IF settings # <<>>
               THEN /\ settings' = <<[settings[1] EXCEPT
                                        !.globalFilter = Merge(@, filter)]>>
                    /\ globalFilter' = Merge(settings[1].globalFilter, filter)
               ELSE UNCHANGED <<settings, globalFilter>>
            /\ Returns(<<>>)
    /\ UNCHANGED <<store, nextId, filters, page, pageSize, now, yearMonth,
                   registry, client>>

\* the wall clock passes into the next month
Tick ==
    /\ now' = NewDate(now.year, now.month + 1)
    /\ UNCHANGED <<store, nextId, globalFilter, filters, page, pageSize, yearMonth,
                 settings, registry, outcome,
                   error, client>>

\* months elapsed since the initial clock
Elapsed == (now.year * 12 + now.month) - (Clock0.year * 12 + Clock0.month)

tableUpdate_upsert(table, key, changes) ==
    IF \E i \in 1..Len(table) : table[i].id = key
    THEN [i \in 1..Len(table) |->
             IF table[i].id = key THEN Merge(table[i], changes) ELSE table[i]]
    ELSE Append(table, Merge([id |-> key], changes))

\* table.update(key, changes): the record with that key, if any, gets the
\* changed fields; every other record is left as it is
tableUpdate(table, key, changes) ==
    [i \in 1..Len(table) |->
        IF table[i].id = key THEN Merge(table[i], changes) ELSE table[i]]

\* table.get(key): the record with that key, or nothing
tableGet(table, key) == SelectSeq(table, LAMBDA r : r.id = key)

\* const { id, ...updates } = input
updatesOf(input) == [k \in DOMAIN input \ {"id"} |-> input[k]]

\* transactionService.update inside the try/catch of updateTransaction: what
\* the call does to the table and how its promise settles
update(input) ==
    LET transaction == tableGet(store', input.id)
    IN  IF WriteFails
        THEN /\ Throws("useTransactions", StoreError)
             /\ UNCHANGED store
        ELSE /\ store' = tableUpdate(store, input.id, updatesOf(input))
             /\ IF ReadFails
                THEN Throws("useTransactions", StoreError)
                ELSE IF transaction = <<>>
                THEN Throws("useTransactions", "Transaction not found")
                ELSE Returns(transaction)

updateTransaction_upsert(input) ==
    /\ IF WriteFails
       THEN /\ Throws("useTransactions", StoreError)
            /\ UNCHANGED store
       ELSE /\ store' = IF tableGet(store, input.id) = <<>>
                        THEN Append(store, input)
                        ELSE tableUpdate(store, input.id, updatesOf(input))
            /\ IF ReadFails
               THEN Throws("useTransactions", StoreError)
               ELSE Returns(tableGet(store', input.id))
    /\ UNCHANGED <<nextId, globalFilter, filters, page, pageSize, now, yearMonth,
                   settings, registry, client>>

\* transactionService.update / useTransactions.updateTransaction
updateTransaction(input) ==
    /\ update(input)
    /\ UNCHANGED <<nextId, globalFilter, filters, page, pageSize, now, yearMonth,
                   settings, registry, client>>

\* useTransactions.bulkDelete: db.transactions.bulkDelete(ids)
bulkDelete(ids) ==
    /\ IF WriteFails
       THEN /\ Throws("useTransactions", StoreError)
            /\ UNCHANGED store
       ELSE /\ store' = SelectSeq(store, LAMBDA tx : tx.id \notin ids)
            /\ Returns(<<>>)
    /\ UNCHANGED <<nextId, globalFilter, filters, page, pageSize, now, yearMonth,
                   settings, registry, client>>

\* ------------------------------------------------------------------------
\* Specification: classification of transactions
\* ------------------------------------------------------------------------
KindInputs ==
    [date : {"2024-03-05"},
     category : {SalaryEn, SalaryIt, "Groceries"},
     subcategory : {"Other"},
     amount : {-50, 0, 50},
     from : {"", "Checking"},
     to : {"", "Store"},
     note : {NULL}, tag : {NULL}, track : {TRUE}]

NextKind ==
    \E input \in KindInputs :
        /\ Len(store) < MaxKindTx
        /\ addTransaction(input)

SpecKind == InitBase /\ [][NextKind]_vars

\* C1: getTransactionType is 'income' when the category is Salary/Stipendio or
\* the amount is positive, otherwise 'transfer' when from and to are both
\* non-empty, otherwise 'expense'; so 'transfer' is returned only for a
\* non-salary category with amount <= 0.
IsSalary(tx) == tx.category \in {"Salary", "Stipendio"}

C1_KindOrder ==
    \A tx \in Range(store) :
        LET kind == getTransactionType(tx) IN
        /\ (IsSalary(tx) \/ tx.amount > 0) => kind = "income"
        /\ (~IsSalary(tx) /\ tx.amount <= 0 /\ tx.from # "" /\ tx.to # "")
              => kind = "transfer"
        /\ (~IsSalary(tx) /\ tx.amount <= 0 /\ (tx.from = "" \/ tx.to = ""))
              => kind = "expense"
        /\ kind = "transfer" => (~IsSalary(tx) /\ tx.amount <= 0)

C1_Witness ==
    /\ \E tx \in Range(store) :
          tx.amount > 0 /\ tx.from # "" /\ tx.to # "" /\ ~IsSalary(tx)
          /\ getTransactionType(tx) = "income"
    /\ \E tx \in Range(store) :
          tx.amount < 0 /\ IsSalary(tx) /\ getTransactionType(tx) = "income"

\* ------------------------------------------------------------------------
\* Specification: pagination of the filtered list
\* ------------------------------------------------------------------------
PageInputs ==
    [date : {"2024-03-05"},
     category : {"Home", "Groceries"},
     subcategory : {"Other"},
     amount : {-10},
     from : {""}, to : {""},
     note : {NULL}, tag : {NULL}, track : {TRUE}]

PageFilters ==
    {[noFilters EXCEPT !.category = c] : c \in {"Home", "Groceries"}}

InitPages ==
    /\ store = <<>>
    /\ nextId = 1
    /\ globalFilter = defaultFilter
    /\ filters = noFilters
    /\ page = 1
    /\ pageSize \in 1..MaxPageSize
    /\ now = Clock0
    /\ yearMonth = NULL
    /\ InitDatabase

NextPages ==
    \/ \E input \in PageInputs : nextId <= MaxPageTx /\ addTransaction(input)
    \/ \E tx \in Range(store) : deleteTransaction(tx.id)
    \/ \E f \in PageFilters : setFilters(f)
    \/ clearFilters
    \/ \E p \in 1..MaxPage : setPage(p)

SpecPages == InitPages /\ [][NextPages]_vars

\* C2: for a filtered set of size N and a page size P >= 1 the hook reports
\* totalPages = max(1, ceil(N / P)); it reports 1, never 0, when N = 0.
C2_TotalPagesAtLeastOne ==
    LET N == Len(Filtered)
        P == pageSize
        ceil == CHOOSE c \in 0..N : c * P >= N /\ (c = 0 \/ (c - 1) * P < N)
    IN  TotalPages = Max(1, ceil)

\* ------------------------------------------------------------------------
\* Specification: the client (store, global filter, local filters)
\* ------------------------------------------------------------------------
ClientInputs ==
    {input \in [date : {"2024-03-05", "2024-02-10", "2023-12-31"},
                category : {"Home", SalaryEn},
                subcategory : {"Other"},
                amount : {-10, 30},
                from : {""}, to : {""},
                note : {NULL}, tag : {NULL}, track : {TRUE}] :
        input.category = SalaryEn <=> input.amount > 0}

GlobalFilterPatches ==
    {[enabled |-> e] : e \in BOOLEAN}
    \cup {[startDate |-> s] : s \in {NULL, "2024-01-01"}}
    \cup {[endDate |-> e] : e \in {NULL, "2024-02-29"}}

ClientFilters ==
    {[noFilters EXCEPT !.category = "Home"],
     [noFilters EXCEPT !.type = "income"]}

NextClient ==
    \/ \E input \in ClientInputs : nextId <= MaxTx /\ addTransaction(input)
    \/ \E tx \in Range(store) : deleteTransaction(tx.id)
    \/ \E patch \in GlobalFilterPatches : updateGlobalFilter(patch)
    \/ \E f \in ClientFilters : setFilters(f)
    \/ clearFilters

Spec == InitBase /\ [][NextClient]_vars

\* the date range the global filter selects, when it is enabled
InGlobalRange(tx) ==
    globalFilter.enabled =>
        /\ Truthy(globalFilter.startDate) => StrLeq(globalFilter.startDate, tx.date)
        /\ Truthy(globalFilter.endDate) => StrLeq(tx.date, globalFilter.endDate)

TrackInputs ==
    {[date |-> d, category |-> k[1], subcategory |-> "Other", amount |-> k[2],
      from |-> "", to |-> "", note |-> NULL, tag |-> NULL, track |-> b] :
        d \in {"2024-03-05", "2024-02-10"},
        k \in {<<"Home", -10>>, <<"Groceries", 30>>},
        b \in BOOLEAN}

TrackFilters == {[noFilters EXCEPT !.category = "Home"]}

NextTrack ==
    \/ \E input \in TrackInputs : nextId <= MaxTrackTx /\ addTransaction(input)
    \/ \E f \in TrackFilters : setFilters(f)
    \/ clearFilters

SpecTrack == InitBase /\ [][NextTrack]_vars

TrackedOnly(txs) == SelectSeq(txs, LAMBDA tx : tx.track)

\* tx satisfies every predicate that f provides
Matches(tx, f) ==
    /\ Truthy(f.category) => tx.category = f.category
    /\ Truthy(f.subcategory) => tx.subcategory = f.subcategory
    /\ Truthy(f.tag) => tx.tag = f.tag
    /\ Truthy(f.type) => getTransactionType(tx) = f.type
    /\ Truthy(f.yearMonth) => substring0(tx.date, 7) = f.yearMonth
    /\ Truthy(f.search) => matchesSearch(tx, toLowerCase(f.search))

ServiceRanges ==
    {<<"2024-01-01", "2024-12-31">>, <<"2024-03-01", "2024-03-31">>,
     <<"2024-02-10", "2024-03-05">>}

ServiceYears == {2023, 2024}

\* C4: untracked transactions contribute to no statistic (useStats, getStats,
\* getCategoryBreakdown, getMonthlyTotals give what they give on the tracked
\* transactions alone), and every untracked transaction that matches the
\* filters is in the listing.
C4_UntrackedIgnored ==
    LET txs == Transactions
        listed == Range(filteredTransactions(txs, filters))
        tracked == TrackedOnly(store)
    IN  /\ useStats(txs, yearMonth, now) = useStats(TrackedOnly(txs), yearMonth, now)
        /\ \A r \in ServiceRanges :
              /\ getStats(store, r[1], r[2]) = getStats(tracked, r[1], r[2])
              /\ \A type \in {"income", "expense"} :
                    getCategoryBreakdown(store, r[1], r[2], type)
                        = getCategoryBreakdown(tracked, r[1], r[2], type)
        /\ \A year \in ServiceYears :
              getMonthlyTotals(store, year) = getMonthlyTotals(tracked, year)
        /\ \A tx \in Range(txs) :
              (~tx.track /\ Matches(tx, filters)) => tx \in listed

C4_Witness ==
    LET txs == Transactions
        listed == Range(filteredTransactions(txs, filters))
        stats == Stats
    IN  /\ \E tx \in listed :
              ~tx.track /\ startsWith(tx.date, getCurrentYearMonth(now))
        /\ \E tx \in Range(txs) :
              tx.track /\ startsWith(tx.date, getCurrentYearMonth(now))
        /\ filters # noFilters
        /\ stats.transactionCount < Len(txs)
        /\ stats.totalExpenses > 0

\* ------------------------------------------------------------------------
\* Specification: the monthly rollup under a moving clock
\* ------------------------------------------------------------------------
RollupInputs ==
    {[date |-> d, category |-> "Home", subcategory |-> "Other", amount |-> a,
      from |-> "", to |-> "", note |-> NULL, tag |-> NULL, track |-> TRUE] :
        d \in {"2024-03-05", "2023-04-30"}, a \in {-10, 30}}
    \cup {[date |-> "2024-03-05", category |-> "Home", subcategory |-> "Other",
           amount |-> 30, from |-> "", to |-> "", note |-> NULL, tag |-> NULL,
           track |-> FALSE]}

NextRollup ==
    \/ \E input \in RollupInputs : nextId <= MaxRollupTx /\ addTransaction(input)
    \/ Elapsed < MaxTicks /\ Tick

SpecRollup == InitBase /\ [][NextRollup]_vars

RECURSIVE SumOf(_, _)
\* the sum of f[i] over i in the finite set S
SumOf(f, S) ==
    IF S = {} THEN 0
    ELSE LET i == CHOOSE j \in S : TRUE IN f[i] + SumOf(f, S \ {i})

\* the month keys of a rollup
WindowMonths(rollup) == {rollup[i].month : i \in 1..Len(rollup)}

\* C5: over the buckets of the rollup, the incomes sum to the positive amounts
\* and the expenses to the absolute negative amounts of the tracked
\* transactions whose month is a bucket; tracked transactions of other months
\* change no bucket.
C5_RollupSums ==
    LET txs == Transactions
        rollup == Stats.monthlyStats
        window == WindowMonths(rollup)
        at == {i \in 1..Len(txs) :
                  txs[i].track /\ substring0(txs[i].date, 7) \in window}
    IN  /\ SumOf([i \in 1..Len(rollup) |-> rollup[i].income], 1..Len(rollup))
              = SumOf([i \in 1..Len(txs) |-> txs[i].amount],
                      {i \in at : txs[i].amount > 0})
        /\ SumOf([i \in 1..Len(rollup) |-> rollup[i].expenses], 1..Len(rollup))
              = SumOf([i \in 1..Len(txs) |-> -txs[i].amount],
                      {i \in at : txs[i].amount < 0})
        /\ rollup = monthlyStats([i \in 1..Cardinality(at) |->
                                     txs[CHOOSE k \in at :
                                            Cardinality({j \in at : j < k}) = i - 1]],
                                 now)

C5_Witness ==
    LET txs == Transactions
        rollup == Stats.monthlyStats
        window == WindowMonths(rollup)
    IN  /\ \E tx \in Range(txs) :
              tx.track /\ substring0(tx.date, 7) \in window /\ tx.amount > 0
        /\ \E tx \in Range(txs) :
              tx.track /\ substring0(tx.date, 7) \in window /\ tx.amount < 0
        /\ \E tx \in Range(txs) : tx.track /\ substring0(tx.date, 7) \notin window
        /\ \E i \in 1..Len(rollup) : rollup[i].income > 0 /\ rollup[i].expenses > 0

\* the key YYYY-MM of the month number k (months counted from year 0)
MonthKeyOf(k) ==
    NatToString(k \div 12) \o "-"
        \o (IF (k % 12) + 1 < 10 THEN "0" ELSE "") \o NatToString((k % 12) + 1)

\* C10: the rollup has exactly 12 entries, the 12 consecutive calendar months
\* ending at the month of `now`, in ascending order; months without tracked
\* activity are zero, savings = income - expenses, savingsRate = 0 without income.
C10_TwelveMonths ==
    LET last == now.year * 12 + now.month
        txs == Transactions
        rollup == Stats.monthlyStats
        active == {substring0(tx.date, 7) : tx \in {x \in Range(txs) : x.track}}
    IN  /\ Len(rollup) = 12
        /\ \A i \in 1..Len(rollup) : rollup[i].month = MonthKeyOf(last - 12 + i)
        /\ \A i \in 1..(Len(rollup) - 1) :
              StrLess(rollup[i].month, rollup[i + 1].month)
        /\ \A i \in 1..Len(rollup) :
              /\ rollup[i].month \notin active
                    => (rollup[i].income = 0 /\ rollup[i].expenses = 0)
              /\ rollup[i].savings = rollup[i].income - rollup[i].expenses
              /\ rollup[i].income = 0 => rollup[i].savingsRate = Num(0)

C10_Witness ==
    LET rollup == Stats.monthlyStats
    IN  /\ now.month = 0
        /\ rollup[1].month = "2024-02"
        /\ rollup[12].month = "2025-01"
        /\ \E i \in 1..Len(rollup) : rollup[i].expenses > 0 /\ rollup[i].income = 0
        /\ \E i \in 1..Len(rollup) : rollup[i].income = 0 /\ rollup[i].expenses = 0

\* ------------------------------------------------------------------------
\* Specification: the category breakdown of a target month
\* ------------------------------------------------------------------------
BreakdownInputs ==
    {[date |-> "2024-03-05", category |-> k[1], subcategory |-> k[2],
      amount |-> a, from |-> "", to |-> "", note |-> NULL, tag |-> NULL,
      track |-> TRUE] :
        k \in {<<"Home", "Rent">>, <<"Home", "Other">>, <<"Groceries", "Other">>},
        a \in {-20, -10, 0, 30}}
    \cup {[date |-> "2024-03-05", category |-> "Home", subcategory |-> "Rent",
           amount |-> -10, from |-> "", to |-> "", note |-> NULL, tag |-> NULL,
           track |-> FALSE],
          [date |-> "2024-02-10", category |-> "Home", subcategory |-> "Rent",
           amount |-> -10, from |-> "", to |-> "", note |-> NULL, tag |-> NULL,
           track |-> TRUE]}

InitBreakdown ==
    /\ store = <<>>
    /\ nextId = 1
    /\ globalFilter = defaultFilter
    /\ filters = noFilters
    /\ page = 1
    /\ pageSize = DefaultPageSize
    /\ now = Clock0
    /\ yearMonth \in {NULL, "2024-02"}
    /\ InitDatabase

NextBreakdown ==
    \E input \in BreakdownInputs : nextId <= MaxBreakdownTx /\ addTransaction(input)

SpecBreakdown == InitBreakdown /\ [][NextBreakdown]_vars

\* the target month: the one supplied, else the month of the clock
TargetMonth ==
    IF yearMonth = NULL THEN MonthKeyOf(now.year * 12 + now.month) ELSE yearMonth

\* the positions in txs of the tracked expenses of the month
MonthExpenses(txs, month) ==
    {i \in 1..Len(txs) :
        txs[i].track /\ substring0(txs[i].date, 7) = month /\ txs[i].amount < 0}

\* neither NaN nor an infinity
isFinite(x) == x.kind = "num"

\* x + y for two finite numbers
JSPlus(x, y) == Fraction(x.n * y.d + y.n * x.d, x.d * y.d)

\* the sum of the numbers of a sequence
RECURSIVE SumNum(_)
SumNum(s) == IF s = <<>> THEN Num(0) ELSE JSPlus(Head(s), SumNum(Tail(s)))

\* C6: each percentage is categoryTotal / (sum of the category totals) * 100;
\* the percentages sum to 100 when the month has a tracked expense, and the
\* breakdown is empty, with sum 0, when it has none.
C6_Percentages ==
    LET txs == Transactions
        stats == categoryStats(monthTransactions(txs, yearMonth, now))
        E == MonthExpenses(txs, TargetMonth)
        denominator == SumOf([i \in 1..Len(txs) |-> -txs[i].amount], E)
        sum == SumNum([i \in 1..Len(stats) |-> stats[i].percentage])
    IN  /\ SumOf([i \in 1..Len(stats) |-> stats[i].totalAmount], 1..Len(stats))
              = denominator
        /\ \A i \in 1..Len(stats) :
              /\ denominator > 0
              /\ stats[i].percentage
                    = Fraction(stats[i].totalAmount * 100, denominator)
        /\ IF E # {} THEN sum = Num(100) ELSE stats = <<>> /\ sum = Num(0)

C6_Witness ==
    LET stats == categoryStats(monthTransactions(Transactions, yearMonth, now))
    IN  /\ Len(stats) = 2
        /\ stats[1].percentage = Fraction(200, 3)
        /\ stats[2].percentage = Fraction(100, 3)

\* C7: averageTransaction is totalExpenses divided by the number of tracked
\* expenses of the month, and 0 (never NaN or Infinity) when there is none.
C7_Average ==
    LET txs == Transactions
        monthTxs == monthTransactions(txs, yearMonth, now)
        E == MonthExpenses(txs, TargetMonth)
        totalExpenses == SumOf([i \in 1..Len(txs) |-> -txs[i].amount], E)
        average == averageTransaction(monthTxs)
    IN  /\ isFinite(average)
        /\ monthTotals(monthTxs).expenses = totalExpenses
        /\ average = IF E = {} THEN Num(0)
                     ELSE Fraction(totalExpenses, Cardinality(E))

C7_Witness ==
    LET txs == Transactions
        monthTxs == monthTransactions(txs, yearMonth, now)
    IN  /\ MonthExpenses(txs, TargetMonth) = {}
        /\ \E tx \in Range(monthTxs) : tx.amount > 0
        /\ \E tx \in Range(monthTxs) : tx.amount = 0
        /\ averageTransaction(monthTxs) = Num(0)

\* a month with two expenses and one income: the average is 30 / 2
C7_WitnessExpenses ==
    LET txs == Transactions
        monthTxs == monthTransactions(txs, yearMonth, now)
    IN  /\ Cardinality(MonthExpenses(txs, TargetMonth)) = 2
        /\ Len(monthTxs) = 3
        /\ averageTransaction(monthTxs) = Num(15)

\* C8: the breakdown has one entry per category of the tracked expenses of the
\* month and no other; totalAmount and totalCount are the sum of the absolute
\* amounts and the number of those transactions; the subcategory entries, one
\* per distinct name, sum to totalAmount and totalCount.
C8_Breakdown ==
    LET txs == Transactions
        stats == categoryStats(monthTransactions(txs, yearMonth, now))
        E == MonthExpenses(txs, TargetMonth)
        abs == [i \in 1..Len(txs) |-> -txs[i].amount]
    IN  /\ {stats[i].category : i \in 1..Len(stats)} = {txs[k].category : k \in E}
        /\ Len(stats) = Cardinality({txs[k].category : k \in E})
        /\ \A i \in 1..Len(stats) :
              LET row == stats[i]
                  Ec == {k \in E : txs[k].category = row.category}
                  subs == row.subcategories
              IN  /\ row.totalAmount = SumOf(abs, Ec)
                  /\ row.totalCount = Cardinality(Ec)
                  /\ {subs[j].name : j \in 1..Len(subs)}
                        = {txs[k].subcategory : k \in Ec}
                  /\ Len(subs) = Cardinality({txs[k].subcategory : k \in Ec})
                  /\ \A j \in 1..Len(subs) :
                        LET Es == {k \in Ec : txs[k].subcategory = subs[j].name}
                        IN  /\ subs[j].amount = SumOf(abs, Es)
                            /\ subs[j].count = Cardinality(Es)
                  /\ SumOf([j \in 1..Len(subs) |-> subs[j].amount], 1..Len(subs))
                        = row.totalAmount
                  /\ SumOf([j \in 1..Len(subs) |-> subs[j].count], 1..Len(subs))
                        = row.totalCount

C8_Witness ==
    LET txs == Transactions
        stats == categoryStats(monthTransactions(txs, yearMonth, now))
    IN  /\ Len(stats) = 1
        /\ Len(stats[1].subcategories) = 1
        /\ stats[1].totalCount = 2
        /\ stats[1].totalAmount = 30
        /\ \E tx \in Range(txs) :
              substring0(tx.date, 7) = TargetMonth /\ (~tx.track \/ tx.amount > 0)

\* two categories, one of them with two subcategory entries
C8_WitnessSubcategories ==
    LET stats == categoryStats(monthTransactions(Transactions, yearMonth, now))
    IN  /\ Len(stats) = 2
        /\ \E i \in 1..2 : Len(stats[i].subcategories) = 2

\* ------------------------------------------------------------------------
\* Specification: the order of the category breakdown
\* ------------------------------------------------------------------------
TopCategoryNames ==
    {"Home", "Groceries", "Transportation", "Health", "Entertainment", "Clothing"}

TopInputs ==
    [date : {"2024-03-05"},
     category : TopCategoryNames,
     subcategory : {"Other"},
     amount : {-10},
     from : {""}, to : {""},
     note : {NULL}, tag : {NULL}, track : {TRUE}]

NextTop ==
    \E input \in TopInputs : nextId <= MaxTopTx /\ addTransaction(input)

SpecTop == InitBase /\ [][NextTop]_vars

InputOrders(n) ==
    {p \in [1..n -> 1..n] : \A i, j \in 1..n : i # j => p[i] # p[j]}

CategoryOrder(stats) == [i \in 1..Len(stats) |-> stats[i].category]

\* C9 (as claimed): categoryStats is sorted by totalAmount descending and its
\* order is the same for every permutation of the same input transactions.
C9_OrderIndependent ==
    LET txs == Transactions
        order == CategoryOrder(categoryStats(monthTransactions(txs, yearMonth, now)))
    IN  \A p \in InputOrders(Len(txs)) :
            CategoryOrder(categoryStats(
                monthTransactions([i \in 1..Len(txs) |-> txs[p[i]]], yearMonth, now)))
                = order

\* C9 (amended): categoryStats is sorted by totalAmount descending; categories
\* with equal totals are in the order of their first expense in the input
\* list; topCategories is the first 5 entries (all when there are fewer).
C9_StableOrderTop5 ==
    LET txs == Transactions
        stats == categoryStats(monthTransactions(txs, yearMonth, now))
        top == topCategories(stats)
        E == MonthExpenses(txs, TargetMonth)
        first == [c \in {txs[k].category : k \in E} |->
                     CHOOSE k \in E :
                         /\ txs[k].category = c
                         /\ \A m \in E : txs[m].category = c => k <= m]
    IN  /\ \A i, j \in 1..Len(stats) :
              i < j =>
                  /\ stats[i].totalAmount >= stats[j].totalAmount
                  /\ stats[i].totalAmount = stats[j].totalAmount
                        => first[stats[i].category] < first[stats[j].category]
        /\ Len(top) = Min(5, Len(stats))
        /\ \A i \in 1..Len(top) : top[i] = stats[i]

C9_Witness ==
    LET stats == categoryStats(monthTransactions(Transactions, yearMonth, now))
    IN  /\ Len(stats) = 6
        /\ Len(topCategories(stats)) = 5
        /\ topCategories(stats)[5] = stats[5]

\* three categories: one larger total, then two equal totals
C9_WitnessSorted ==
    LET stats == categoryStats(monthTransactions(Transactions, yearMonth, now))
    IN  /\ Len(stats) = 3
        /\ stats[1].totalAmount > stats[2].totalAmount
        /\ stats[2].totalAmount = stats[3].totalAmount
\* ------------------------------------------------------------------------
\* Specification: the local filter pipeline
\* ------------------------------------------------------------------------
MaxFilterTx == 2

FilterInputs ==
    {[date |-> "2024-03-05", category |-> "Home", subcategory |-> "Rent",
      amount |-> -10, from |-> "", to |-> "", note |-> NULL, tag |-> NULL,
      track |-> TRUE],
     [date |-> "2024-03-06", category |-> "Groceries", subcategory |-> "Other",
      amount |-> -20, from |-> "Checking", to |-> "Market Home",
      note |-> "Weekly SHOP", tag |-> "Urgent", track |-> TRUE],
     [date |-> "2024-02-10", category |-> SalaryEn, subcategory |-> "Fixed",
      amount |-> 30, from |-> "ACME", to |-> "Checking", note |-> NULL,
      tag |-> "Recurring", track |-> TRUE],
     [date |-> "2024-02-11", category |-> "Home", subcategory |-> "Other",
      amount |-> -5, from |-> "", to |-> "", note |-> "home repair",
      tag |-> "Urgent", track |-> FALSE],
     [date |-> "2024-03-07", category |-> "Gifts", subcategory |-> "Other",
      amount |-> -7, from |-> "Checking", to |-> "Savings", note |-> NULL,
      tag |-> NULL, track |-> TRUE]}

FilterValues ==
    {[noFilters EXCEPT !.category = "Home"],
     [noFilters EXCEPT !.subcategory = "Other"],
     [noFilters EXCEPT !.tag = "Urgent"],
     [noFilters EXCEPT !.type = "income"],
     [noFilters EXCEPT !.type = "transfer"],
     [noFilters EXCEPT !.type = "expense"],
     [noFilters EXCEPT !.yearMonth = "2024-03"],
     [noFilters EXCEPT !.search = "HOME"],
     [noFilters EXCEPT !.search = "shop"],
     [noFilters EXCEPT !.category = "Home", !.search = "Repair"],
     [noFilters EXCEPT !.type = "expense", !.yearMonth = "2024-03",
                       !.tag = "Urgent"],
     [noFilters EXCEPT !.category = "", !.search = ""]}

NextFilter ==
    \/ \E input \in FilterInputs : nextId <= MaxFilterTx /\ addTransaction(input)
    \/ \E f \in FilterValues : setFilters(f)
    \/ clearFilters

SpecFilter == InitBase /\ [][NextFilter]_vars

\* a predicate is provided when the filter carries a non-empty value for it
Provided(v) == v # NULL /\ v # ""

\* a and b are the same text when case is ignored
EqualIgnoringCase(a, b) ==
    /\ Len(a) = Len(b)
    /\ \A i \in 1..Len(a) : LowerChar(SubSeq(a, i, i)) = LowerChar(SubSeq(b, i, i))

\* text occurs somewhere in field, case ignored; an undefined field has no text
ContainsIgnoringCase(field, text) ==
    /\ field # NULL
    /\ \E i \in 1..(Len(field) + 1) :
          /\ i + Len(text) - 1 <= Len(field)
          /\ EqualIgnoringCase(SubSeq(field, i, i + Len(text) - 1), text)

\* tx satisfies every predicate that the filter value f provides
Satisfies(tx, f) ==
    /\ Provided(f.category) => tx.category = f.category
    /\ Provided(f.subcategory) => tx.subcategory = f.subcategory
    /\ Provided(f.tag) => tx.tag = f.tag
    /\ Provided(f.type) =>
          f.type = (IF IsSalary(tx) \/ tx.amount > 0 THEN "income"
                    ELSE IF tx.from # "" /\ tx.to # "" THEN "transfer"
                    ELSE "expense")
    /\ Provided(f.yearMonth) => SubSeq(tx.date, 1, 7) = f.yearMonth
    /\ Provided(f.search) =>
          \E field \in {tx.category, tx.subcategory, tx.note, tx.from, tx.to} :
              ContainsIgnoringCase(field, f.search)

NoPredicate(f) == \A k \in DOMAIN f : ~Provided(f[k])

\* C11: filteredTransactions is the order-preserving subsequence of the input
\* list made of exactly the transactions that satisfy every provided predicate
\* (category, subcategory, tag by equality; type by the derived kind;
\* yearMonth against the first 7 characters of date; search ignoring case in
\* one of category, subcategory, note, from, to); with no predicate provided
\* it is the input list itself.
C11_FilteredSubsequence ==
    LET txs == Transactions
        result == filteredTransactions(txs, filters)
    IN  /\ result = SelectSeq(txs, LAMBDA tx : Satisfies(tx, filters))
        /\ NoPredicate(filters) => result = txs

C11_Witness ==
    LET txs == Transactions
        result == filteredTransactions(txs, filters)
    IN  /\ filters.category = "Home"
        /\ filters.search = "Repair"
        /\ Len(txs) = 2
        /\ Len(result) = 1
        /\ result[1].note = "home repair"
        /\ result = SelectSeq(txs, LAMBDA tx : Satisfies(tx, filters))

\* a second state of C11: the search text is found only in `to`, and an
\* empty-string predicate leaves the list as it is
C11_WitnessFields ==
    LET txs == Transactions
    IN  /\ Len(txs) = 2
        /\ \E tx \in Range(txs) : tx.category = "Home"
        /\ \E tx \in Range(txs) : tx.to = "Market Home"
        /\ filteredTransactions(txs, [noFilters EXCEPT !.search = "HOME"]) = txs
        /\ filteredTransactions(txs, [noFilters EXCEPT !.category = "",
                                                       !.search = ""]) = txs

\* C12: applying a filter with setFilters and then clearing it with
\* clearFilters leaves filteredTransactions equal to the list before the
\* filter, same elements in the same order: neither call changes the
\* underlying list, and after clearFilters the filtered list is that list.
C12_SetThenClear ==
    [][((\E f \in FilterValues : setFilters(f)) \/ clearFilters) =>
          \E nextStore \in {store'}, nextGlobal \in {globalFilter'},
             nextFilters \in {filters'} :
              LET before == Transactions
                  after == getAll(nextStore, nextGlobal)
              IN  /\ after = before
                  /\ clearFilters =>
                        filteredTransactions(after, nextFilters) = before]_vars

C12_Witness ==
    LET txs == Transactions
        shown == filteredTransactions(txs, filters)
    IN  /\ filters \in FilterValues
        /\ Len(txs) = 2
        /\ Len(shown) = 1
        /\ txs[1].date # txs[2].date
        /\ filteredTransactions(txs, noFilters) = txs

\* ------------------------------------------------------------------------
\* Pagination of the filtered list (specification SpecPages)
\* ------------------------------------------------------------------------
RECURSIVE Concat(_)
Concat(lists) ==
    IF lists = <<>> THEN <<>> ELSE Head(lists) \o Concat(Tail(lists))

\* C13: the pages 1, 2, ..., totalPages of a filtered list, concatenated in
\* order, are exactly that list: every element appears once, in the original
\* order; every page but the last holds pageSize elements.
C13_PagesPartition ==
    LET filtered == Filtered
        n == totalPages(filtered, pageSize)
        pages == [p \in 1..n |-> paginatedTransactions(filtered, p, pageSize)]
    IN  /\ Concat(pages) = filtered
        /\ \A tx \in Range(filtered) :
              Cardinality({<<p, i>> \in (1..n) \X (1..pageSize) :
                              i <= Len(pages[p]) /\ pages[p][i] = tx}) = 1
        /\ \A p \in 1..(n - 1) : Len(pages[p]) = pageSize
        /\ n >= 1 => Len(pages[n]) \in 1..pageSize

C13_Witness ==
    LET filtered == Filtered
        n == totalPages(filtered, pageSize)
    IN  /\ filters # noFilters
        /\ Len(filtered) < Len(store)
        /\ pageSize = 2
        /\ n = 2
        /\ Len(paginatedTransactions(filtered, 1, pageSize)) = 2
        /\ Len(paginatedTransactions(filtered, 2, pageSize)) = 1

\* C14: every change of the filters resets the page: right after any
\* setFilters(f) or clearFilters() call page = 1, whatever the page and the
\* filters were before.
C14_FilterChangeResetsPage ==
    [][/\ (\E f \in PageFilters : setFilters(f)) => page' = 1
       /\ clearFilters => page' = 1
       /\ filters' # filters => page' = 1]_vars

C14_Witness ==
    /\ page = 1
    /\ filters # noFilters
    /\ TotalPages > 1

\* ------------------------------------------------------------------------
\* Specification: the page while the store shrinks
\* ------------------------------------------------------------------------
MaxShrinkTx == 2

\* patches that move a transaction into the other category
ShrinkPatches(id) == {[id |-> id, category |-> c] : c \in {"Home", "Groceries"}}

NextShrink ==
    \/ \E input \in PageInputs : nextId <= MaxShrinkTx /\ addTransaction(input)
    \/ \E tx \in Range(store) : deleteTransaction(tx.id)
    \/ \E a, b \in Range(store) : a.id < b.id /\ bulkDelete({a.id, b.id})
    \/ \E tx \in Range(store) : \E input \in ShrinkPatches(tx.id) :
          updateTransaction(input)
    \/ \E f \in PageFilters : setFilters(f)
    \/ clearFilters
    \/ \E p \in 1..MaxPage : setPage(p)

SpecShrink == InitPages /\ [][NextShrink]_vars

\* C15: the page is never clamped. setPage(p) stores p as given; only
\* setPage, setFilters and clearFilters change the page, so a store change
\* (delete, bulkDelete, update) that shrinks the filtered list leaves the page
\* where it was; a page greater than totalPages shows an empty
\* paginatedTransactions.
C15_PageNotClamped ==
    [][/\ \A p \in 1..MaxPage : setPage(p) => page' = p
       /\ page' # page => \/ \E p \in 1..MaxPage : setPage(p)
                          \/ \E f \in PageFilters : setFilters(f)
                          \/ clearFilters
       /\ store' # store => page' = page
       /\ \E nextStore \in {store'}, nextGlobal \in {globalFilter'},
             nextFilters \in {filters'}, nextPage \in {page'},
             nextSize \in {pageSize'} :
              LET filtered == filteredTransactions(
                                  getAll(nextStore, nextGlobal), nextFilters)
              IN  nextPage > totalPages(filtered, nextSize) =>
                      paginatedTransactions(filtered, nextPage, nextSize) = <<>>]_vars

\* an update moved a transaction out of the filtered category while the last
\* page was shown
C15_Witness ==
    /\ outcome.status = "resolved"
    /\ outcome.value # <<>>
    /\ outcome.value[1].id < nextId - 1
    /\ filters # noFilters
    /\ outcome.value[1].category # filters.category
    /\ Len(Filtered) > 0
    /\ page > 1
    /\ page > TotalPages
    /\ Paginated = <<>>

\* a second state of C15: a delete emptied the last page
C15_WitnessDelete ==
    /\ outcome = resolved(<<>>)
    /\ filters = noFilters
    /\ Len(store) = 1
    /\ store[1].id > 1
    /\ page = 2
    /\ TotalPages = 1
    /\ Paginated = <<>>

\* ------------------------------------------------------------------------
\* Specification: getAll under the global filter
\* ------------------------------------------------------------------------
MaxGetAllTx == 3

GetAllInputs ==
    [date : {"2024-01-14", "2024-01-15", "2024-02-29", "2024-03-01"},
     category : {"Home"}, subcategory : {"Other"}, amount : {-10},
     from : {""}, to : {""}, note : {NULL}, tag : {NULL}, track : {TRUE}]

GetAllPatches ==
    {[enabled |-> e] : e \in BOOLEAN}
    \cup {[startDate |-> s] : s \in {NULL, "", "2024-01-15"}}
    \cup {[endDate |-> e] : e \in {NULL, "2024-02-29"}}

NextGetAll ==
    \/ \E input \in GetAllInputs : nextId <= MaxGetAllTx /\ addTransaction(input)
    \/ \E patch \in GetAllPatches : updateGlobalFilter(patch)

SpecGetAll == InitBase /\ [][NextGetAll]_vars

\* the calendar date 'YYYY-MM-DD' as the number YYYYMMDD
DateValue(date) ==
    LET digit(i) == CharCode(SubSeq(date, i, i)) - 1
    IN  (digit(1) * 1000 + digit(2) * 100 + digit(3) * 10 + digit(4)) * 10000
        + (digit(6) * 10 + digit(7)) * 100
        + digit(9) * 10 + digit(10)

DatesDescending(txs) ==
    \A i \in 1..(Len(txs) - 1) :
        DateValue(txs[i].date) >= DateValue(txs[i + 1].date)

\* C16: getAll returns the transactions ordered by date descending. With
\* globalFilter.enabled it returns exactly those with startDate <= date <=
\* endDate for whichever bounds are present (both inclusive), all of them when
\* neither is present; with enabled false, or without a filter, it returns
\* all transactions whatever the bounds.
C16_GetAllRange ==
    LET result == getAll(store, globalFilter)
        unfiltered == getAll(store, noGlobalFilter)
        start == globalFilter.startDate
        end == globalFilter.endDate
        inRange(tx) ==
            /\ Provided(start) => DateValue(start) <= DateValue(tx.date)
            /\ Provided(end) => DateValue(tx.date) <= DateValue(end)
        expected == IF globalFilter.enabled
                    THEN {tx \in Range(store) : inRange(tx)}
                    ELSE Range(store)
    IN  /\ DatesDescending(result)
        /\ Range(result) = expected
        /\ Len(result) = Cardinality(expected)
        /\ DatesDescending(unfiltered)
        /\ Range(unfiltered) = Range(store)
        /\ Len(unfiltered) = Len(store)

C16_Witness ==
    LET result == getAll(store, globalFilter)
    IN  /\ globalFilter.enabled
        /\ Provided(globalFilter.startDate)
        /\ Provided(globalFilter.endDate)
        /\ Len(store) = 3
        /\ Len(result) = 2
        /\ result[1].date = globalFilter.endDate
        /\ result[2].date = globalFilter.startDate
        /\ result[1].id < result[2].id

\* a second state of C16: bounds are stored but the filter is disabled
C16_WitnessDisabled ==
    /\ ~globalFilter.enabled
    /\ Provided(globalFilter.startDate)
    /\ \E tx \in Range(store) : StrLess(tx.date, globalFilter.startDate)
    /\ Len(getAll(store, globalFilter)) = Len(store)
    /\ Len(store) = 3

\* ------------------------------------------------------------------------
\* Specification: updating a transaction
\* ------------------------------------------------------------------------
MaxUpdateTx == 2

UpdateBase ==
    {[date |-> d, category |-> "Home", subcategory |-> "Rent", amount |-> -10,
      from |-> "", to |-> "", note |-> NULL, tag |-> NULL, track |-> TRUE] :
        d \in {"2024-03-05", "2024-02-10"}}

\* an id alone, one field, two fields; ids of stored and of missing records
UpdateInputs ==
    UNION {{[id |-> id],
            [id |-> id, amount |-> -99],
            [id |-> id, category |-> "Gifts", note |-> "fixed"]} :
               id \in 1..(MaxUpdateTx + 1)}

NextUpdate ==
    \/ \E input \in UpdateBase : nextId <= MaxUpdateTx /\ addTransaction(input)
    \/ \E tx \in Range(store) : deleteTransaction(tx.id)
    \/ \E input \in UpdateInputs : updateTransaction(input)

SpecUpdate == InitBase /\ [][NextUpdate]_vars

\* C17: update(input) merge-updates only the provided fields of the record
\* with input.id: the fields absent from the patch, the id and every other
\* record stay as they were, and the returned entity is the stored one. When
\* no record has input.id, update fails with 'Transaction not found' and the
\* store is unchanged: no record is created.
C17_UpdateMerges ==
    [][\A input \in UpdateInputs :
          updateTransaction(input) =>
              LET before == tableGet(store, input.id)
                  after == tableGet(store', input.id)
              IN  /\ Len(store') = Len(store)
                  /\ \A i \in 1..Len(store) :
                        /\ store'[i].id = store[i].id
                        /\ DOMAIN store'[i] = DOMAIN store[i]
                        /\ store[i].id # input.id => store'[i] = store[i]
                        /\ store[i].id = input.id =>
                              \A k \in DOMAIN store[i] :
                                  store'[i][k] = IF k \in DOMAIN input
                                                 THEN input[k]
                                                 ELSE store[i][k]
                  /\ IF before = <<>>
                     THEN /\ store' = store
                          /\ outcome'.status = "rejected"
                          /\ outcome'.message = "Transaction not found"
                     ELSE /\ outcome'.status = "resolved"
                          /\ Len(after) = 1
                          /\ outcome'.value = after]_vars

\* a two-field patch was merged into one of two records
C17_Witness ==
    /\ outcome.status = "resolved"
    /\ Len(store) = 2
    /\ \E i, j \in 1..2 :
          /\ i # j
          /\ store[i] = outcome.value[1]
          /\ store[i].category = "Gifts"
          /\ store[i].note = "fixed"
          /\ store[i].subcategory = "Rent"
          /\ store[i].amount \in {-10, -99}
          /\ store[j].category = "Home"
          /\ store[j].note = NULL

\* a second state of C17: update of a deleted record was rejected
C17_WitnessNotFound ==
    /\ outcome.status = "rejected"
    /\ outcome.message = "Transaction not found"
    /\ Len(store) = 1
    /\ nextId = 3

\* ------------------------------------------------------------------------
\* useCategories: the category registry
\* ------------------------------------------------------------------------
\* db.categories.where('name').equals(name): first() is its head, if any
whereNameEquals(table, name) == SelectSeq(table, LAMBDA r : r.name = name)

uniqueNameTaken_noIndex(table, key, name) == FALSE

\* the unique index '&name': another record of the table already has the name
uniqueNameTaken(table, key, name) ==
    \E r \in Range(table) : r.name = name /\ r.id # key

\* the hook's frame: what no category mutator touches
registryFrame ==
    <<store, nextId, globalFilter, filters, page, pageSize, now, yearMonth,
      settings, tags, client>>

addCategory(name, subcategories) ==
    LET existing == whereNameEquals(categories, name)
    IN  /\ IF ReadFails
           THEN /\ Throws("useCategories", StoreError)
                /\ UNCHANGED <<categories, nextCategoryId>>
           ELSE IF existing # <<>>
           THEN /\ Throws("useCategories",
                          "Category \"" \o name \o "\" already exists")
                /\ UNCHANGED <<categories, nextCategoryId>>
           ELSE IF WriteFails
           THEN /\ Throws("useCategories", StoreError)
                /\ UNCHANGED <<categories, nextCategoryId>>
           ELSE /\ categories' = Append(categories,
                                        [id |-> nextCategoryId, name |-> name,
                                         subcategories |-> subcategories])
                /\ nextCategoryId' = nextCategoryId + 1
                /\ Returns(<<>>)
        /\ UNCHANGED registryFrame

\* db.categories.update(id, { name, subcategories }); the unique index on name
\* rejects the write with a ConstraintError
updateCategory(id, name, subcategories) ==
    /\ IF WriteFails
       THEN /\ Throws("useCategories", StoreError)
            /\ UNCHANGED categories
       ELSE IF tableGet(categories, id) # <<>>
               /\ uniqueNameTaken(categories, id, name)
       THEN /\ Throws("useCategories", "ConstraintError")
            /\ UNCHANGED categories
       ELSE /\ categories' = tableUpdate(categories, id,
                                         [name |-> name,
                                          subcategories |-> subcategories])
            /\ Returns(<<>>)
    /\ UNCHANGED nextCategoryId
    /\ UNCHANGED registryFrame

deleteCategory(id) ==
    /\ IF WriteFails
       THEN /\ Throws("useCategories", StoreError)
            /\ UNCHANGED categories
       ELSE /\ categories' = SelectSeq(categories, LAMBDA r : r.id # id)
            /\ Returns(<<>>)
    /\ UNCHANGED nextCategoryId
    /\ UNCHANGED registryFrame

\* Array.prototype.includes
arrayIncludes(list, x) == \E i \in 1..Len(list) : list[i] = x

addSubcategory_noDuplicateCheck(categoryName, subcategoryName) ==
    LET record == whereNameEquals(categories, categoryName)
    IN  /\ IF ReadFails
           THEN /\ Throws("useCategories", StoreError)
                /\ UNCHANGED categories
           ELSE IF record = <<>>
           THEN /\ Throws("useCategories",
                          "Category \"" \o categoryName \o "\" not found")
                /\ UNCHANGED categories
           ELSE IF WriteFails
           THEN /\ Throws("useCategories", StoreError)
                /\ UNCHANGED categories
           ELSE /\ categories' =
                      tableUpdate(categories, Head(record).id,
                                  [subcategories |->
                                      Append(Head(record).subcategories,
                                             subcategoryName)])
                /\ Returns(<<>>)
        /\ UNCHANGED nextCategoryId
        /\ UNCHANGED registryFrame

addSubcategory(categoryName, subcategoryName) ==
    LET record == whereNameEquals(categories, categoryName)
    IN  /\ IF ReadFails
           THEN /\ Throws("useCategories", StoreError)
                /\ UNCHANGED categories
           ELSE IF record = <<>>
           THEN /\ Throws("useCategories",
                          "Category \"" \o categoryName \o "\" not found")
                /\ UNCHANGED categories
           ELSE IF arrayIncludes(Head(record).subcategories, subcategoryName)
           THEN /\ Throws("useCategories",
                          "Subcategory \"" \o subcategoryName
                             \o "\" already exists")
                /\ UNCHANGED categories
           ELSE IF WriteFails
           THEN /\ Throws("useCategories", StoreError)
                /\ UNCHANGED categories
           ELSE /\ categories' =
                      tableUpdate(categories, Head(record).id,
                                  [subcategories |->
                                      Append(Head(record).subcategories,
                                             subcategoryName)])
                /\ Returns(<<>>)
        /\ UNCHANGED nextCategoryId
        /\ UNCHANGED registryFrame

removeSubcategory(categoryName, subcategoryName) ==
    LET record == whereNameEquals(categories, categoryName)
    IN  /\ IF ReadFails
           THEN /\ Throws("useCategories", StoreError)
                /\ UNCHANGED categories
           ELSE IF record = <<>>
           THEN /\ Throws("useCategories",
                          "Category \"" \o categoryName \o "\" not found")
                /\ UNCHANGED categories
           ELSE IF WriteFails
           THEN /\ Throws("useCategories", StoreError)
                /\ UNCHANGED categories
           ELSE /\ categories' =
                      tableUpdate(categories, Head(record).id,
                                  [subcategories |->
                                      SelectSeq(Head(record).subcategories,
                                                LAMBDA s : s # subcategoryName)])
                /\ Returns(<<>>)
        /\ UNCHANGED nextCategoryId
        /\ UNCHANGED registryFrame

\* ------------------------------------------------------------------------
\* Specification: the category registry
\* ------------------------------------------------------------------------
MaxNewCategories == 1

\* 'Home' is seeded; 'home' differs from it in case only
RegistryNames == {"Home", "home", "Salary"}

RegistrySubNames == {"Other", "Garden"}

\* 'Nowhere' is never a category
RegistryTargets == {"Home", "home", "Nowhere"}

\* the seeded Home record and the first records the user adds
RegistryIds == {2} \cup (NextKey(defaultCategories)
                          ..(Len(defaultCategories) + MaxNewCategories))

NextRegistry ==
    \/ \E name \in RegistryNames :
          /\ \/ nextCategoryId <= Len(defaultCategories) + MaxNewCategories
             \/ whereNameEquals(categories, name) # <<>>
          /\ addCategory(name, <<"Other">>)
    \/ \E id \in RegistryIds, name \in RegistryNames :
          updateCategory(id, name, <<"Other">>)
    \/ \E id \in RegistryIds : deleteCategory(id)
    \/ \E c \in RegistryTargets, s \in RegistrySubNames : addSubcategory(c, s)
    \/ \E c \in RegistryTargets, s \in RegistrySubNames : removeSubcategory(c, s)

SpecRegistry == InitBase /\ [][NextRegistry]_vars

NamesUnique(table) ==
    \A i, j \in 1..Len(table) : i # j => table[i].name # table[j].name

EndsWith(s, suffix) ==
    /\ Len(suffix) <= Len(s)
    /\ SubSeq(s, Len(s) - Len(suffix) + 1, Len(s)) = suffix

\* C18: category names are unique. addCategory(name) fails with an
\* already-exists error and leaves the registry unchanged when a category
\* with exactly that name exists, and after any sequence of addCategory,
\* updateCategory, deleteCategory, addSubcategory and removeSubcategory calls
\* no two category records have the same name.
C18_NamesUnique ==
    [][/\ NamesUnique(categories)
       /\ NamesUnique(categories')
       /\ \A name \in RegistryNames :
             addCategory(name, <<"Other">>) =>
                 IF \E r \in Range(categories) : r.name = name
                 THEN /\ UNCHANGED registry
                      /\ outcome'.status = "rejected"
                      /\ EndsWith(outcome'.message, "already exists")
                 ELSE /\ Len(categories') = Len(categories) + 1
                      /\ SubSeq(categories', 1, Len(categories)) = categories
                      /\ categories'[Len(categories')].name = name
                      /\ outcome'.status = "resolved"]_vars

\* addCategory('Home') was rejected while 'home' could be added next to 'Home'
C18_Witness ==
    /\ outcome.status = "rejected"
    /\ outcome.message = "Category \"Home\" already exists"
    /\ \E r \in Range(categories) : r.name = "Home"
    /\ \E r \in Range(categories) : r.name = "home"

\* a second state of C18: renaming a category to a taken name was rejected
C18_WitnessRename ==
    /\ outcome.status = "rejected"
    /\ outcome.message = "ConstraintError"
    /\ Len(categories) = Len(defaultCategories) + 1

\* C19: addSubcategory(categoryName, subName) fails with a not-found error
\* when no category has that name and with an already-exists error when
\* subName is already in that category's list; in both cases the list and the
\* rest of the registry are unchanged. On success subName is appended at the
\* end and the existing subcategories keep their order.
C19_AddSubcategory ==
    [][\A c \in RegistryTargets, s \in RegistrySubNames :
          addSubcategory(c, s) =>
              LET at == {i \in 1..Len(categories) : categories[i].name = c}
              IN  IF at = {}
                  THEN /\ UNCHANGED registry
                       /\ outcome'.status = "rejected"
                       /\ EndsWith(outcome'.message, "not found")
                  ELSE IF \E i \in at : s \in Range(categories[i].subcategories)
                  THEN /\ UNCHANGED registry
                       /\ outcome'.status = "rejected"
                       /\ EndsWith(outcome'.message, "already exists")
                  ELSE /\ Len(categories') = Len(categories)
                       /\ \A i \in 1..Len(categories) :
                             IF i \in at
                             THEN /\ categories'[i].id = categories[i].id
                                  /\ categories'[i].name = c
                                  /\ categories'[i].subcategories =
                                        categories[i].subcategories \o <<s>>
                             ELSE categories'[i] = categories[i]
                       /\ UNCHANGED <<nextCategoryId, tags>>
                       /\ outcome'.status = "resolved"]_vars

\* 'Garden' was added to Home, and adding it again was rejected
C19_Witness ==
    /\ outcome.status = "rejected"
    /\ outcome.message = "Subcategory \"Garden\" already exists"
    /\ \E r \in Range(categories) :
          /\ r.name = "Home"
          /\ r.subcategories =
                <<"Rent", "Mortgage", "Utilities", "Maintenance", "Furniture",
                  "Other", "Garden">>

\* a second state of C19: the category does not exist
C19_WitnessNotFound ==
    /\ outcome.status = "rejected"
    /\ outcome.message = "Category \"Nowhere\" not found"
    /\ Len(categories) = Len(defaultCategories)

\* ------------------------------------------------------------------------
\* Specification: initialising the database
\* ------------------------------------------------------------------------
MaxSeedings == 2

\* initializeDatabase(), and the settings live query that follows it
initializeDatabase ==
    LET db == initializeDatabaseOn(Database)
    IN  /\ IF initializeDatabaseFails(Database)
           THEN /\ outcome' = rejected(StoreError)
                /\ UNCHANGED <<settings, registry, globalFilter>>
           ELSE /\ settings' = db.settings
                /\ categories' = db.categories
                /\ nextCategoryId' = db.nextCategoryId
                /\ tags' = db.tags
                /\ globalFilter' = db.settings[1].globalFilter
                /\ outcome' = resolved(<<>>)
        /\ UNCHANGED <<store, nextId, filters, page, pageSize, now, yearMonth,
                       error, client>>

updateSettings_replace(newSettings) ==
    /\ IF ReadFails \/ (settings # <<>> /\ WriteFails)
       THEN /\ Swallows("useExpenseData", StoreError)
            /\ UNCHANGED settings
       ELSE /\ IF settings # <<>>
               THEN settings' = <<[settings[1] EXCEPT
                                      !.userSettings = newSettings]>>
               ELSE UNCHANGED settings
            /\ Returns(<<>>)
    /\ UNCHANGED <<store, nextId, globalFilter, filters, page, pageSize, now,
                   yearMonth, registry, client>>

\* useExpenseData.updateSettings: { ...current.userSettings, ...newSettings }
updateSettings(newSettings) ==
    /\ IF ReadFails \/ (settings # <<>> /\ WriteFails)
       THEN /\ Swallows("useExpenseData", StoreError)
            /\ UNCHANGED settings
       ELSE /\ IF settings # <<>>
               THEN settings' = <<[settings[1] EXCEPT
                                      !.userSettings = Merge(@, newSettings)]>>
               ELSE UNCHANGED settings
            /\ Returns(<<>>)
    /\ UNCHANGED <<store, nextId, globalFilter, filters, page, pageSize, now,
                   yearMonth, registry, client>>

\* a fresh profile before the mount effect has run
InitEmpty ==
    /\ store = <<>>
    /\ nextId = 1
    /\ globalFilter = defaultFilter
    /\ filters = noFilters
    /\ page = 1
    /\ pageSize = DefaultPageSize
    /\ now = Clock0
    /\ yearMonth = NULL
    /\ settings = emptyDatabase.settings
    /\ categories = emptyDatabase.categories
    /\ nextCategoryId = emptyDatabase.nextCategoryId
    /\ tags = emptyDatabase.tags
    /\ InitClient(FALSE)

SettingsPatches == {[savingsGoal |-> 30], [locale |-> "it"]}

NextInit ==
    \/ /\ categories = <<>> =>
             nextCategoryId <= Len(defaultCategories) * MaxSeedings
       /\ initializeDatabase
    \/ \E patch \in SettingsPatches : updateSettings(patch)
    \/ updateGlobalFilter([enabled |-> TRUE])
    \/ /\ nextCategoryId <= Len(defaultCategories) * MaxSeedings
       /\ addCategory("Pets", <<"Other">>)
    \/ categories # <<>> /\ deleteCategory(Head(categories).id)

SpecInit == InitEmpty /\ [][NextInit]_vars

NamesOf(table) == [i \in 1..Len(table) |-> table[i].name]

\* C20: initializeDatabase is idempotent. It creates the settings record only
\* when there is none, seeds the categories only when the categories table is
\* empty and the tags only when the tags table is empty; a second call after
\* a completed one changes nothing in settings, categories or tags, and what
\* the user changed in between is preserved.
C20_InitIdempotent ==
    [][initializeDatabase =>
          /\ settings # <<>> => settings' = settings
          /\ settings = <<>> => settings' = <<defaultSettingsRecord>>
          /\ categories # <<>> => UNCHANGED <<categories, nextCategoryId>>
          /\ categories = <<>> => NamesOf(categories') = NamesOf(defaultCategories)
          /\ tags # <<>> => tags' = tags
          /\ tags = <<>> => NamesOf(tags') = NamesOf(defaultTags)
          /\ initializeDatabaseOn(Database') = Database']_vars

\* the settings edits and the added category are still there, and a further
\* call leaves this database as it is
C20_Witness ==
    /\ settings # <<>>
    /\ settings[1].userSettings.savingsGoal = 30
    /\ settings[1].globalFilter.enabled
    /\ Len(categories) = Len(defaultCategories) + 1
    /\ categories[Len(categories)].name = "Pets"
    /\ NamesOf(tags) = NamesOf(defaultTags)
    /\ initializeDatabaseOn(Database) = Database

\* a second state of C20: every category was deleted and a later call seeded
\* the defaults again, under new keys, next to the edited settings
C20_WitnessReseed ==
    /\ settings # <<>>
    /\ settings[1].userSettings.locale = "it"
    /\ NamesOf(categories) = NamesOf(defaultCategories)
    /\ categories[1].id > Len(defaultCategories)

\* ------------------------------------------------------------------------
\* The seed data
\* ------------------------------------------------------------------------
SubcategoryCounts(table) ==
    [i \in 1..Len(table) |-> Len(table[i].subcategories)]

FirstInitialization ==
    /\ settings = <<>>
    /\ categories = <<>>
    /\ nextCategoryId = 1
    /\ tags = <<>>
    /\ initializeDatabase

\* C21 as the specification states it: after the first initialization of an
\* empty store the categories table holds exactly 13 categories, each with
\* between 3 and 6 subcategories, and the tags table holds exactly 4 tags.
C21_SeedThreeToSix ==
    [][FirstInitialization =>
          /\ Len(categories') = 13
          /\ \A i \in 1..Len(categories') :
                /\ Len(categories'[i].subcategories) >= 3
                /\ Len(categories'[i].subcategories) <= 6
          /\ Len(tags') = 4]_vars

\* C21, amended: after the first initialization of an empty store the
\* categories table holds exactly the 13 English categories below under the
\* keys 1..13, each with between 2 and 6 subcategories ('Other' has two), and
\* the tags table holds exactly the 4 tags below under the keys 1..4. The
\* Italian names of the bilingual set are not seeded.
C21_SeedTwoToSix ==
    [][FirstInitialization =>
          /\ NamesOf(categories') =
                <<"Salary", "Home", "Groceries", "Transportation", "Health",
                  "Entertainment", "Clothing", "Technology", "Education",
                  "Gifts", "Taxes", "Investments", "Other">>
          /\ SubcategoryCounts(categories') =
                <<3, 6, 4, 6, 4, 5, 4, 4, 3, 3, 4, 4, 2>>
          /\ \A i \in 1..Len(categories') : categories'[i].id = i
          /\ nextCategoryId' = 14
          /\ NamesOf(tags') = <<"Urgent", "Recurring", "Optional", "Deductible">>
          /\ \A i \in 1..Len(tags') : tags'[i].id = i
          /\ \A i \in 1..Len(categories') :
                categories'[i].name \notin {"Stipendio", "Casa", "Altro"}]_vars

\* the database right after the first initialization: thirteen categories,
\* the last of them with two subcategories only
C21_Witness ==
    /\ settings = <<defaultSettingsRecord>>
    /\ Len(categories) = 13
    /\ nextCategoryId = 14
    /\ categories[13].id = 13
    /\ categories[13].name = "Other"
    /\ Len(categories[13].subcategories) = 2
    /\ Len(tags) = 4

\* ------------------------------------------------------------------------
\* Specification: the settings record
\* ------------------------------------------------------------------------
UserSettingsPatches ==
    {[savingsGoal |-> 30], [locale |-> "it"], [currency |-> "USD"],
     [locale |-> "en", savingsGoal |-> 10], [currency |-> "EUR"]}

SettingsFilterPatches ==
    {[enabled |-> TRUE], [enabled |-> FALSE], [startDate |-> "2024-01-01"],
     [startDate |-> "2024-02-01", endDate |-> "2024-02-29"],
     [endDate |-> NULL]}

NextSettings ==
    \/ initializeDatabase
    \/ \E patch \in UserSettingsPatches : updateSettings(patch)
    \/ \E patch \in SettingsFilterPatches : updateGlobalFilter(patch)

SpecSettings == InitEmpty /\ [][NextSettings]_vars

\* after is before with exactly the fields of patch changed to patch's values
MergedInto(before, patch, after) ==
    /\ DOMAIN after = DOMAIN before
    /\ \A k \in DOMAIN before :
          after[k] = IF k \in DOMAIN patch THEN patch[k] ELSE before[k]

\* C22: the settings record is created once, with locale = en, currency = EUR
\* and savingsGoal = 20, and afterwards only merge-updated: updateSettings
\* changes exactly the userSettings fields of its patch and leaves the other
\* userSettings fields and the globalFilter alone, updateGlobalFilter changes
\* exactly the globalFilter fields of its patch and leaves userSettings
\* alone, and no call replaces the record (its id and lastSync stay) or
\* removes it.
C22_SettingsMergeUpdated ==
    [][/\ initializeDatabase =>
             IF settings = <<>>
             THEN /\ Len(settings') = 1
                  /\ settings'[1].id = "settings"
                  /\ settings'[1].userSettings =
                        [locale |-> "en", currency |-> "EUR", savingsGoal |-> 20]
             ELSE settings' = settings
       /\ \A patch \in UserSettingsPatches :
             updateSettings(patch) /\ settings # <<>> =>
                /\ Len(settings') = 1
                /\ MergedInto(settings[1].userSettings, patch,
                              settings'[1].userSettings)
                /\ settings'[1].globalFilter = settings[1].globalFilter
                /\ settings'[1].id = settings[1].id
                /\ settings'[1].lastSync = settings[1].lastSync
       /\ \A patch \in SettingsFilterPatches :
             updateGlobalFilter(patch) /\ settings # <<>> =>
                /\ Len(settings') = 1
                /\ MergedInto(settings[1].globalFilter, patch,
                              settings'[1].globalFilter)
                /\ settings'[1].userSettings = settings[1].userSettings
                /\ settings'[1].id = settings[1].id
                /\ settings'[1].lastSync = settings[1].lastSync
       /\ settings # <<>> => settings' # <<>>]_vars

\* a record that went through patches of both kinds: two user settings were
\* changed and one kept, two filter fields were changed and one kept
C22_Witness ==
    /\ settings # <<>>
    /\ settings[1].id = "settings"
    /\ settings[1].userSettings =
          [locale |-> "it", currency |-> "EUR", savingsGoal |-> 10]
    /\ settings[1].globalFilter =
          [enabled |-> TRUE, startDate |-> "2024-01-01", endDate |-> NULL]

\* ------------------------------------------------------------------------
\* Specification: mutating calls against a store that can reject
\* ------------------------------------------------------------------------
MaxFailTx == 1

\* the Record Store starts or stops rejecting its writes, or every operation
storeFault(kinds) ==
    /\ failing' = kinds
    /\ UNCHANGED <<store, nextId, globalFilter, filters, page, pageSize, now,
                   yearMonth, settings, registry, outcome, error, mount, modal,
                   calls>>

FaultKinds == {{}, {"write"}, {"read", "write"}}

FailureInput ==
    [date |-> "2024-03-05", category |-> "Home", subcategory |-> "Rent",
     amount |-> -10, from |-> "", to |-> "", note |-> NULL, tag |-> NULL,
     track |-> TRUE]

\* the calls are made with arguments that a working store accepts, so that a
\* rejection can only come from the store
TransactionMutator ==
    \/ nextId <= MaxFailTx /\ addTransaction(FailureInput)
    \/ \E tx \in Range(store) : updateTransaction([id |-> tx.id, amount |-> -20])
    \/ \E tx \in Range(store) : deleteTransaction(tx.id)
    \/ store # <<>> /\ bulkDelete({tx.id : tx \in Range(store)})

CategoryMutator ==
    \/ /\ whereNameEquals(categories, "Pets") = <<>>
       /\ nextCategoryId <= Len(defaultCategories) + MaxFailTx
       /\ addCategory("Pets", <<"Other">>)
    \/ updateCategory(2, "House", <<"Rent">>)
    \/ \E r \in Range(whereNameEquals(categories, "Pets")) : deleteCategory(r.id)
    \/ /\ \E r \in Range(categories) :
             r.name = "Salary" /\ ~arrayIncludes(r.subcategories, "Overtime")
       /\ addSubcategory("Salary", "Overtime")
    \/ removeSubcategory("Salary", "Overtime")

SettingsMutator ==
    \/ updateSettings([savingsGoal |-> 30])
    \/ updateGlobalFilter([enabled |-> TRUE])

NextFailure ==
    \/ \E kinds \in FaultKinds : storeFault(kinds)
    \/ TransactionMutator
    \/ CategoryMutator
    \/ SettingsMutator

SpecFailure == InitBase /\ [][NextFailure]_vars

\* C23: every mutating operation exposed to the presentation layer rejects
\* its returned promise when the underlying store operation fails; none of
\* them resolves after a failed store write. Stated for a store that rejects
\* every operation, where the first store operation of any call fails.
C23_MutatorsRejectOnFailure ==
    [][(TransactionMutator \/ CategoryMutator \/ SettingsMutator)
          /\ failing = {"read", "write"}
       => /\ outcome'.status = "rejected"
          /\ outcome'.message = StoreError]_vars

\* the part of C23 that holds: the mutators of useTransactions and of
\* useCategories reject with the store's Error, keep it in the hook's error
\* state and leave the tables as they were
C23_HookMutatorsReject ==
    [][(TransactionMutator \/ CategoryMutator) /\ failing = {"read", "write"}
       => /\ outcome' = rejected(StoreError)
          /\ \E hook \in {"useTransactions", "useCategories"} :
                error'[hook] = StoreError
          /\ UNCHANGED <<store, nextId, settings, registry>>]_vars

\* where C23 fails: the store rejected the settings write, useExpenseData kept
\* the Error, and the promise of updateSettings / updateGlobalFilter resolved
C23_SettingsFailureResolved ==
    /\ failing = {"read", "write"}
    /\ error.useExpenseData = StoreError
    /\ outcome = resolved(<<>>)
    /\ settings = <<defaultSettingsRecord>>

\* ------------------------------------------------------------------------
\* Specification: the live queries against a store whose reads can reject
\* ------------------------------------------------------------------------
MaxLiveTx == 2

LiveInputs ==
    {[date |-> "2024-03-05", category |-> "Home", subcategory |-> "Rent",
      amount |-> -10, from |-> "", to |-> "", note |-> NULL, tag |-> NULL,
      track |-> TRUE],
     [date |-> "2024-03-10", category |-> SalaryEn, subcategory |-> "Fixed",
      amount |-> 30, from |-> "", to |-> "", note |-> NULL, tag |-> NULL,
      track |-> TRUE]}

NextLive ==
    \/ \E input \in LiveInputs : nextId <= MaxLiveTx /\ addTransaction(input)
    \/ setFilters([noFilters EXCEPT !.category = "Home"])
    \/ clearFilters
    \/ \E p \in 1..2 : setPage(p)
    \/ updateGlobalFilter([enabled |-> TRUE, startDate |-> "2024-03-01"])
    \/ \E kinds \in {{}, {"read"}} : storeFault(kinds)

SpecLive == InitBase /\ [][NextLive]_vars

\* useStats of no transactions at all: every figure 0, no category
NoStats(stats) ==
    /\ stats.totalIncome = 0
    /\ stats.totalExpenses = 0
    /\ stats.balance = 0
    /\ stats.savingsRate = Num(0)
    /\ stats.averageTransaction = Num(0)
    /\ stats.transactionCount = 0
    /\ stats.categoryStats = <<>>
    /\ stats.topCategories = <<>>
    /\ Len(stats.monthlyStats) = MonthsInWindow
    /\ \A i \in 1..Len(stats.monthlyStats) :
          /\ stats.monthlyStats[i].income = 0
          /\ stats.monthlyStats[i].expenses = 0
          /\ stats.monthlyStats[i].savings = 0
          /\ stats.monthlyStats[i].savingsRate = Num(0)

\* C24: read-only live queries never throw. While the store's reads fail, the
\* transaction, category and tag live queries yield the empty list or the
\* empty mapping, the settings query yields the default filter and the
\* default settings, and the filtered list, the pages and the statistics
\* derived from the empty list are empty or zero, none of them NaN.
C24_LiveQueriesDegrade ==
    ReadFails =>
        /\ Transactions = <<>>
        /\ liveTransactions = <<>>
        /\ liveCategories = noCategories
        /\ DOMAIN hookCategories = {}
        /\ categoryRecords = <<>>
        /\ liveTags = <<>>
        /\ liveGlobalFilter =
              [enabled |-> FALSE, startDate |-> NULL, endDate |-> NULL]
        /\ liveSettings =
              [locale |-> "en", currency |-> "EUR", savingsGoal |-> 20]
        /\ Filtered = <<>>
        /\ Paginated = <<>>
        /\ TotalPages = 0
        /\ NoStats(Stats)
        /\ NoStats(ClientStats)

\* the reads fail while the store holds transactions, categories and an
\* enabled global filter, a local filter is set and page 2 is shown
C24_Witness ==
    /\ ReadFails
    /\ Len(store) = 2
    /\ categories # <<>>
    /\ settings[1].globalFilter.enabled
    /\ filters.category = "Home"
    /\ page = 2
    /\ Transactions = <<>>

\* ------------------------------------------------------------------------
\* The entry form (TransactionsView and TransactionFormModal)
\* ------------------------------------------------------------------------
IsDigit(c) == \E i \in 1..Len(Digit) : Digit[i] = c

DigitValue(c) == (CHOOSE i \in 1..Len(Digit) : Digit[i] = c) - 1

\* value.replace(/[^0-9.]/g, '')
RECURSIVE keepDigitsAndDots(_)
keepDigitsAndDots(value) ==
    IF Len(value) = 0 THEN ""
    ELSE LET c == SubSeq(value, 1, 1)
         IN  (IF IsDigit(c) \/ c = "." THEN c ELSE "")
                \o keepDigitsAndDots(SubSeq(value, 2, Len(value)))

\* the longest prefix of s made of digits
RECURSIVE leadingDigits(_)
leadingDigits(s) ==
    IF Len(s) = 0 \/ ~IsDigit(SubSeq(s, 1, 1)) THEN ""
    ELSE SubSeq(s, 1, 1) \o leadingDigits(SubSeq(s, 2, Len(s)))

\* the number a string of digits denotes (0 for the empty string)
RECURSIVE digitsValue(_)
digitsValue(s) ==
    IF Len(s) = 0 THEN 0
    ELSE digitsValue(SubSeq(s, 1, Len(s) - 1)) * 10
            + DigitValue(SubSeq(s, Len(s), Len(s)))

RECURSIVE PowerOfTen(_)
PowerOfTen(n) == IF n = 0 THEN 1 ELSE 10 * PowerOfTen(n - 1)

\* parseFloat of a string of digits and dots: the longest prefix of the form
\* digits [. digits], NaN when that prefix has no digit
parseFloat(s) ==
    LET whole == leadingDigits(s)
        rest == SubSeq(s, Len(whole) + 1, Len(s))
        decimals == IF Len(rest) > 0 /\ SubSeq(rest, 1, 1) = "."
                    THEN leadingDigits(SubSeq(rest, 2, Len(rest)))
                    ELSE ""
    IN  IF Len(whole) = 0 /\ Len(decimals) = 0
        THEN NaN
        ELSE Fraction(digitsValue(whole \o decimals), PowerOfTen(Len(decimals)))

\* what neither the view nor the form touches
formFrame ==
    <<store, nextId, globalFilter, filters, page, pageSize, now, yearMonth,
      settings, registry, outcome, error, failing, mount, calls>>

\* the form's effect on [open, initialData] when the form opens: edit mode
\* copies the transaction, add mode starts blank
resetForm(initialData) ==
    IF initialData # <<>>
    THEN LET tx == initialData[1]
         IN  /\ formData' =
                   [date |-> tx.date, category |-> tx.category,
                    subcategory |-> tx.subcategory, amount |-> Abs(tx.amount),
                    from |-> tx.from, to |-> tx.to,
                    note |-> IF tx.note = NULL THEN "" ELSE tx.note,
                    tag |-> IF tx.tag = NULL THEN "" ELSE tx.tag,
                    track |-> tx.track]
             /\ amountInput' = NatToString(Abs(tx.amount))
             /\ isExpense' = (tx.amount < 0)
    ELSE /\ formData' = blankFormData(now)
         /\ amountInput' = ""
         /\ isExpense' = TRUE

\* TransactionsView.handleAddClick, and the form's reset effect
handleAddClick ==
    /\ ~isFormOpen
    /\ editingTransaction' = <<>>
    /\ isFormOpen' = TRUE
    /\ resetForm(<<>>)
    /\ UNCHANGED formFrame

\* TransactionsView.handleEditClick on a listed transaction, and the form's
\* reset effect
handleEditClick(tx) ==
    /\ ~isFormOpen
    /\ editingTransaction' = <<tx>>
    /\ isFormOpen' = TRUE
    /\ resetForm(<<tx>>)
    /\ UNCHANGED formFrame

\* TransactionsView.handleFormClose
handleFormClose ==
    /\ isFormOpen
    /\ isFormOpen' = FALSE
    /\ editingTransaction' = <<>>
    /\ UNCHANGED <<formData, amountInput, isExpense>>
    /\ UNCHANGED formFrame

\* the options of the subcategory select
subcategories ==
    IF formData.category # "" /\ formData.category \in DOMAIN liveCategories
    THEN liveCategories[formData.category]
    ELSE <<>>

\* TransactionFormModal.handleChange
handleChange(field, value) ==
    /\ isFormOpen
    /\ formData' = IF field = "category"
                   THEN [formData EXCEPT !.category = value, !.subcategory = ""]
                   ELSE [formData EXCEPT ![field] = value]
    /\ UNCHANGED <<isFormOpen, editingTransaction, amountInput, isExpense>>
    /\ UNCHANGED formFrame

\* TransactionFormModal.handleAmountChange; the model's amounts are integers
handleAmountChange(value) ==
    LET cleaned == keepDigitsAndDots(value)
        num == parseFloat(cleaned)
    IN  /\ isFormOpen
        /\ ~isNaN(num) => num.d = 1
        /\ amountInput' = cleaned
        /\ formData' = IF ~isNaN(num)
                       THEN [formData EXCEPT !.amount = num.n]
                       ELSE formData
        /\ UNCHANGED <<isFormOpen, editingTransaction, isExpense>>
        /\ UNCHANGED formFrame

\* the Expense and Income buttons
setIsExpense(value) ==
    /\ isFormOpen
    /\ isExpense' = value
    /\ UNCHANGED <<isFormOpen, editingTransaction, formData, amountInput>>
    /\ UNCHANGED formFrame

\* what handleSubmit passes to onSubmit: { ...formData, amount: finalAmount }
submission ==
    [formData EXCEPT !.amount = IF isExpense THEN -Abs(formData.amount)
                                ELSE Abs(formData.amount)]

handleSubmit_noAmountCheck ==
    /\ isFormOpen
    /\ IF formData.category = "" \/ formData.subcategory = ""
       THEN UNCHANGED <<store, nextId, outcome, error, isFormOpen,
                        editingTransaction>>
       ELSE /\ IF editingTransaction # <<>>
               THEN /\ update([id |-> editingTransaction[1].id] @@ submission)
                    /\ UNCHANGED nextId
               ELSE create(submission)
            /\ IF outcome'.status = "resolved"
               THEN /\ isFormOpen' = FALSE
                    /\ editingTransaction' = <<>>
               ELSE UNCHANGED <<isFormOpen, editingTransaction>>
    /\ UNCHANGED <<formData, amountInput, isExpense>>
    /\ UNCHANGED <<globalFilter, filters, page, pageSize, now, yearMonth,
                   settings, registry, failing, mount, calls>>

\* TransactionFormModal.handleSubmit and TransactionsView.handleFormSubmit:
\* nothing when the form is incomplete; otherwise the update or the add, and
\* the form closes once that call has resolved
handleSubmit ==
    /\ isFormOpen
    /\ IF formData.category = "" \/ formData.subcategory = ""
          \/ formData.amount = 0
       THEN UNCHANGED <<store, nextId, outcome, error, isFormOpen,
                        editingTransaction>>
       ELSE /\ IF editingTransaction # <<>>
               THEN /\ update([id |-> editingTransaction[1].id] @@ submission)
                    /\ UNCHANGED nextId
               ELSE create(submission)
            /\ IF outcome'.status = "resolved"
               THEN /\ isFormOpen' = FALSE
                    /\ editingTransaction' = <<>>
               ELSE UNCHANGED <<isFormOpen, editingTransaction>>
    /\ UNCHANGED <<formData, amountInput, isExpense>>
    /\ UNCHANGED <<globalFilter, filters, page, pageSize, now, yearMonth,
                   settings, registry, failing, mount, calls>>

\* ------------------------------------------------------------------------
\* Specification: transactions entered and edited through the form
\* ------------------------------------------------------------------------
MaxFormTx == 1

FormCategories == {"Home", SalaryEn}

FormSubcategories == {"Rent", "Fixed", "Bonus"}

TypedAmounts == {"", "0", "0.0", "-5 EUR"}

NextForm ==
    \/ handleAddClick
    \/ \E tx \in Range(Paginated) : handleEditClick(tx)
    \/ handleFormClose
    \/ \E c \in FormCategories \cap DOMAIN liveCategories :
          handleChange("category", c)
    \/ \E s \in FormSubcategories \cap Range(subcategories) :
          handleChange("subcategory", s)
    \/ \E value \in TypedAmounts : handleAmountChange(value)
    \/ \E value \in BOOLEAN : setIsExpense(value)
    \/ /\ editingTransaction = <<>> => nextId <= MaxFormTx
       /\ handleSubmit
    \/ /\ ~isFormOpen
       /\ \E r \in Range(whereNameEquals(categories, "Home")) :
             deleteCategory(r.id)

SpecForm == InitBase /\ [][NextForm]_vars

\* C25: zero-amount entries are rejected at entry. Whatever was typed and
\* chosen before, a submission of the form (add or edit) passes on only a
\* non-zero amount with a non-empty category and subcategory, the amount is
\* negative exactly when the Expense toggle is selected, and an incomplete
\* form submits nothing; so no stored transaction has amount 0.
C25_FormRejectsZero ==
    [][/\ handleSubmit =>
             LET called == <<store, nextId, outcome, isFormOpen>>'
                              # <<store, nextId, outcome, isFormOpen>>
             IN  /\ (formData.amount = 0 \/ formData.category = ""
                       \/ formData.subcategory = "") => ~called
                 /\ called =>
                       /\ outcome'.status = "resolved"
                       /\ outcome'.value # <<>>
                       /\ outcome'.value[1].amount # 0
                       /\ outcome'.value[1].amount < 0 <=> isExpense
                       /\ Abs(outcome'.value[1].amount) = formData.amount
                       /\ outcome'.value[1].category = formData.category
                       /\ outcome'.value[1].category # ""
                       /\ outcome'.value[1].subcategory = formData.subcategory
                       /\ outcome'.value[1].subcategory # ""
                       /\ \E i \in 1..Len(store') : store'[i] = outcome'.value[1]
       /\ \A i \in 1..Len(store') : store'[i].amount # 0]_vars

\* "-5 EUR" was typed with the Income toggle selected: the sign and the
\* letters were dropped, and the form stored +5 and closed
C25_Witness ==
    /\ ~isFormOpen
    /\ amountInput = "5"
    /\ ~isExpense
    /\ store # <<>>
    /\ store[1].amount = 5
    /\ store[1].category = formData.category
    /\ outcome = resolved(<<store[1]>>)

\* a second state of C25: the form is complete except for the amount, which
\* was typed as "0.0"; whatever is submitted from here, nothing is stored
C25_WitnessZero ==
    /\ isFormOpen
    /\ formData.category # ""
    /\ formData.subcategory # ""
    /\ amountInput = "0.0"
    /\ formData.amount = 0
    /\ store = <<>>

\* the category is in the registry and the subcategory is one of its
\* subcategories
Registered(tx) ==
    \E r \in Range(categories) :
        /\ r.name = tx.category
        /\ arrayIncludes(r.subcategories, tx.subcategory)

\* C26: every transaction submitted through the entry form, add or edit, has
\* a category that exists in the registry at the time of submission and a
\* subcategory registered for that category at that time, also when the
\* registry changed since the transaction was created.
C26_SubmittedCategoryRegistered ==
    [][handleSubmit /\ outcome'.status = "resolved" /\ outcome'.value # <<>>
          /\ <<store, nextId, outcome, isFormOpen>>'
                # <<store, nextId, outcome, isFormOpen>>
       => Registered(outcome'.value[1])]_vars

\* the part of C26 that holds: what the form submits in add mode was chosen
\* from the registry's categories and subcategories
C26_AddedCategoryRegistered ==
    [][handleSubmit /\ editingTransaction = <<>> /\ nextId' # nextId
       => Registered(outcome'.value[1])]_vars

\* where C26 fails: the category 'Home' was deleted, a transaction of that
\* category was opened in the form and submitted again
C26_EditedAfterDelete ==
    /\ ~isFormOpen
    /\ store # <<>>
    /\ outcome = resolved(<<store[1]>>)
    /\ whereNameEquals(categories, store[1].category) = <<>>
    /\ formData.category = store[1].category
    /\ amountInput = "5"
    /\ Abs(store[1].amount) = 5

\* ------------------------------------------------------------------------
\* The mount effect of useExpenseData and what the client shows
\* ------------------------------------------------------------------------
\* useEffect(() => { void init() }, []): runs once, when the hook mounts
init ==
    LET db == initializeDatabaseOn(Database)
    IN  /\ isLoading
        /\ IF initializeDatabaseFails(Database)
           THEN /\ error' = [error EXCEPT !.useExpenseData = StoreError]
                /\ UNCHANGED <<isInitialized, settings, registry, globalFilter>>
           ELSE /\ settings' = db.settings
                /\ categories' = db.categories
                /\ nextCategoryId' = db.nextCategoryId
                /\ tags' = db.tags
                /\ globalFilter' = db.settings[1].globalFilter
                /\ isInitialized' = TRUE
                /\ UNCHANGED error
        /\ isLoading' = FALSE
        /\ UNCHANGED <<store, nextId, filters, page, pageSize, now, yearMonth,
                       outcome, failing, modal, calls>>

\* useExpenseData.clearError, the "Try Again" button of the error view
clearError ==
    /\ error' = [error EXCEPT !.useExpenseData = NULL]
    /\ UNCHANGED <<store, nextId, globalFilter, filters, page, pageSize, now,
                   yearMonth, settings, registry, outcome, client>>

\* ExpenseTrackerClient: the loading view, the error view, or the application
view ==
    IF ~isInitialized \/ isLoading THEN "loading"
    ELSE IF error.useExpenseData # NULL THEN "error"
    ELSE "app"

\* ------------------------------------------------------------------------
\* Specification: mounting the client on a store that can reject
\* ------------------------------------------------------------------------
MountPatches == {[savingsGoal |-> 30], [locale |-> "it"], [currency |-> "USD"]}

MountFilterPatches ==
    {[enabled |-> TRUE], [enabled |-> FALSE], [startDate |-> "2024-01-01"]}

NextMount ==
    \/ \E kinds \in FaultKinds : storeFault(kinds)
    \/ init
    \/ view = "error" /\ clearError
    \/ view = "app" /\ \E patch \in MountPatches : updateSettings(patch)
    \/ view = "app" /\ \E patch \in MountFilterPatches :
                          updateGlobalFilter(patch)

SpecMount == InitEmpty /\ [][NextMount]_vars

\* every step the client can take is taken eventually: the mount effect
\* runs, and React renders the current state
FairSpecMount == SpecMount /\ WF_vars(init)

\* C27: if initializeDatabase rejects, the client leaves the loading view and
\* shows the error view with that error; once isLoading is false, either
\* isInitialized is true or the error view is displayed.
C27_InitFailureShown ==
    ~isLoading => (isInitialized \/ view = "error")

\* C27 as a temporal property: the client does not stay on the loading view
\* for ever
C27_LeavesLoadingView == <>(view # "loading")

\* where C27 fails: the mount effect has finished, initializeDatabase was
\* rejected and the Error is kept, and the client still shows the loading view
C27_StuckOnLoading ==
    /\ ~isLoading
    /\ ~isInitialized
    /\ error.useExpenseData = StoreError
    /\ view = "loading"

\* the error view is reachable, but only after a successful initialization: a
\* settings write was rejected later
C27_ErrorViewAfterInit ==
    /\ view = "error"
    /\ isInitialized
    /\ outcome = resolved(<<>>)

\* ------------------------------------------------------------------------
\* Asynchronous calls, one store operation at a time
\* ------------------------------------------------------------------------
\* a call of a mutator that is suspended at an await or has settled: op is
\* the mutator, pc the store operation it waits for ("settled" when none),
\* status how its promise settled, record what its read returned, name and
\* input its arguments
Call(op, pc, status, record, name, input) ==
    [op |-> op, pc |-> pc, status |-> status, record |-> record,
     name |-> name, input |-> input]

\* the promise of call i settles
settled(call, status) == [call EXCEPT !.pc = "settled", !.status = status]

\* what no store operation of a category call touches
callFrame ==
    <<store, nextId, globalFilter, filters, page, pageSize, now, yearMonth,
      settings, nextCategoryId, tags, failing, mount, modal>>

\* addSubcategory up to its second await: the read has returned
addSubcategoryRead(categoryName, subcategoryName) ==
    LET record == whereNameEquals(categories, categoryName)
        call == Call("addSubcategory", "write", "pending",
                     IF record = <<>> THEN <<>> ELSE <<Head(record)>>,
                     subcategoryName, <<>>)
    IN  /\ IF ReadFails
           THEN /\ Throws("useCategories", StoreError)
                /\ calls' = Append(calls, settled(call, "rejected"))
           ELSE IF record = <<>>
           THEN /\ Throws("useCategories",
                          "Category \"" \o categoryName \o "\" not found")
                /\ calls' = Append(calls, settled(call, "rejected"))
           ELSE IF arrayIncludes(Head(record).subcategories, subcategoryName)
           THEN /\ Throws("useCategories",
                          "Subcategory \"" \o subcategoryName
                             \o "\" already exists")
                /\ calls' = Append(calls, settled(call, "rejected"))
           ELSE /\ calls' = Append(calls, call)
                /\ UNCHANGED <<outcome, error>>
        /\ UNCHANGED categories
        /\ UNCHANGED callFrame

\* addSubcategory from its second await on: the update with the list that
\* was read, then the promise resolves
addSubcategoryWrite(i) ==
    /\ calls[i].op = "addSubcategory"
    /\ calls[i].pc = "write"
    /\ IF WriteFails
       THEN /\ Throws("useCategories", StoreError)
            /\ calls' = [calls EXCEPT ![i] = settled(@, "rejected")]
            /\ UNCHANGED categories
       ELSE /\ categories' =
                  tableUpdate(categories, calls[i].record[1].id,
                              [subcategories |->
                                  Append(calls[i].record[1].subcategories,
                                         calls[i].name)])
            /\ Returns(<<>>)
            /\ calls' = [calls EXCEPT ![i] = settled(@, "resolved")]
    /\ UNCHANGED callFrame

\* removeSubcategory up to its second await: the read has returned
removeSubcategoryRead(categoryName, subcategoryName) ==
    LET record == whereNameEquals(categories, categoryName)
        call == Call("removeSubcategory", "write", "pending",
                     IF record = <<>> THEN <<>> ELSE <<Head(record)>>,
                     subcategoryName, <<>>)
    IN  /\ IF ReadFails
           THEN /\ Throws("useCategories", StoreError)
                /\ calls' = Append(calls, settled(call, "rejected"))
           ELSE IF record = <<>>
           THEN /\ Throws("useCategories",
                          "Category \"" \o categoryName \o "\" not found")
                /\ calls' = Append(calls, settled(call, "rejected"))
           ELSE /\ calls' = Append(calls, call)
                /\ UNCHANGED <<outcome, error>>
        /\ UNCHANGED categories
        /\ UNCHANGED callFrame

\* removeSubcategory from its second await on: the update with the filtered
\* list that was read, then the promise resolves
removeSubcategoryWrite(i) ==
    /\ calls[i].op = "removeSubcategory"
    /\ calls[i].pc = "write"
    /\ IF WriteFails
       THEN /\ Throws("useCategories", StoreError)
            /\ calls' = [calls EXCEPT ![i] = settled(@, "rejected")]
            /\ UNCHANGED categories
       ELSE /\ categories' =
                  tableUpdate(categories, calls[i].record[1].id,
                              [subcategories |->
                                  SelectSeq(calls[i].record[1].subcategories,
                                            LAMBDA s : s # calls[i].name)])
            /\ Returns(<<>>)
            /\ calls' = [calls EXCEPT ![i] = settled(@, "resolved")]
    /\ UNCHANGED callFrame

\* ------------------------------------------------------------------------
\* Specification: subcategory calls whose reads and writes interleave
\* ------------------------------------------------------------------------
MaxRaceCalls == 3

RaceCategory == "Education"

RaceNames == {"Exams", "Travel"}

NextRace ==
    \/ /\ Len(calls) < MaxRaceCalls
       /\ \E name \in RaceNames : addSubcategoryRead(RaceCategory, name)
    \/ \E i \in 1..Len(calls) : addSubcategoryWrite(i)
    \/ /\ Len(calls) < MaxRaceCalls
       /\ \E name \in {"Books"} \cup RaceNames :
             removeSubcategoryRead(RaceCategory, name)
    \/ \E i \in 1..Len(calls) : removeSubcategoryWrite(i)

SpecRace == InitBase /\ [][NextRace]_vars

\* the subcategories of the category named categoryName
subcategoriesOf(categoryName) ==
    Head(whereNameEquals(categories, categoryName)).subcategories

\* every call made so far has settled
AllSettled == \A i \in 1..Len(calls) : calls[i].pc = "settled"

\* C28: no subcategory addition is lost. Once all calls have settled, every
\* name whose addSubcategory call resolved is in the category's list, unless
\* a removeSubcategory call was made for that very name; this holds for two
\* additions of different names whose reads and writes interleave, and for
\* an addition interleaved with the removal of a different name.
C28_NoAdditionLost ==
    AllSettled =>
        \A i \in 1..Len(calls) :
            (/\ calls[i].op = "addSubcategory"
             /\ calls[i].status = "resolved"
             /\ ~\E j \in 1..Len(calls) :
                    /\ calls[j].op = "removeSubcategory"
                    /\ calls[j].name = calls[i].name)
            => arrayIncludes(subcategoriesOf(RaceCategory), calls[i].name)

\* where C28 fails: two additions of different names both resolved, and the
\* list holds only one of the two names
C28_AdditionLost ==
    /\ Len(calls) = 2
    /\ AllSettled
    /\ \A i \in 1..2 : calls[i].op = "addSubcategory" /\ calls[i].status = "resolved"
    /\ calls[1].name # calls[2].name
    /\ \E i \in 1..2 : ~arrayIncludes(subcategoriesOf(RaceCategory), calls[i].name)

\* a second failure of C28: the removal of 'Books' read the list before the
\* addition of another name wrote it and wrote after it; the added name is gone
C28_AdditionUndone ==
    /\ Len(calls) = 2
    /\ AllSettled
    /\ \E i, j \in 1..2 :
          /\ calls[i].op = "addSubcategory" /\ calls[i].status = "resolved"
          /\ calls[j].op = "removeSubcategory" /\ calls[j].status = "resolved"
          /\ calls[j].name = "Books"
          /\ ~arrayIncludes(subcategoriesOf(RaceCategory), calls[i].name)
          /\ ~arrayIncludes(subcategoriesOf(RaceCategory), "Books")

\* without interleaving nothing is lost: when the second addition read the
\* list after the first had written it, both names are in the list
C28_SequentialKeepsBoth ==
    (/\ Len(calls) = 2
     /\ AllSettled
     /\ \A i \in 1..2 : calls[i].op = "addSubcategory" /\ calls[i].status = "resolved"
     /\ calls[2].record[1].subcategories # calls[1].record[1].subcategories)
    => \A i \in 1..2 : arrayIncludes(subcategoriesOf(RaceCategory), calls[i].name)

\* what no store operation of an update call touches
updateFrame ==
    <<nextId, globalFilter, filters, page, pageSize, now, yearMonth, settings,
      registry, failing, mount, modal>>

\* updateTransaction up to its second await: the store update has been done
updateWrite(input) ==
    LET call == Call("updateTransaction", "read", "pending", <<>>, "", <<input>>)
    IN  /\ IF WriteFails
           THEN /\ Throws("useTransactions", StoreError)
                /\ calls' = Append(calls, settled(call, "rejected"))
                /\ UNCHANGED store
           ELSE /\ store' = tableUpdate(store, input.id, updatesOf(input))
                /\ calls' = Append(calls, call)
                /\ UNCHANGED <<outcome, error>>
        /\ UNCHANGED updateFrame

\* updateTransaction from its second await on: the read-back, then the
\* promise resolves with the record or rejects when there is none
updateReadBack(i) ==
    LET transaction == tableGet(store, calls[i].input[1].id)
    IN  /\ calls[i].op = "updateTransaction"
        /\ calls[i].pc = "read"
        /\ IF ReadFails
           THEN /\ Throws("useTransactions", StoreError)
                /\ calls' = [calls EXCEPT ![i] = settled(@, "rejected")]
           ELSE IF transaction = <<>>
           THEN /\ Throws("useTransactions", "Transaction not found")
                /\ calls' = [calls EXCEPT ![i] = settled(@, "rejected")]
           ELSE /\ Returns(transaction)
                /\ calls' = [calls EXCEPT
                                ![i] = [settled(@, "resolved") EXCEPT
                                           !.record = transaction]]
        /\ UNCHANGED store
        /\ UNCHANGED updateFrame

\* ------------------------------------------------------------------------
\* Specification: an update racing a delete or a bulk delete
\* ------------------------------------------------------------------------
MaxDeleteRaceTx == 2

MaxDeleteRaceCalls == 2

DeleteRaceInput ==
    [date |-> "2024-03-05", category |-> "Home", subcategory |-> "Rent",
     amount |-> -10, from |-> "", to |-> "", note |-> NULL, tag |-> NULL,
     track |-> TRUE]

DeleteRaceUpdates == {[amount |-> -20], [category |-> "Groceries", note |-> "x"]}

NextDeleteRace ==
    \/ nextId <= MaxDeleteRaceTx /\ addTransaction(DeleteRaceInput)
    \/ /\ Len(calls) < MaxDeleteRaceCalls
       /\ \E id \in 1..(nextId - 1), updates \in DeleteRaceUpdates :
             updateWrite([id |-> id] @@ updates)
    \/ \E i \in 1..Len(calls) : updateReadBack(i)
    \/ \E id \in 1..(nextId - 1) : deleteTransaction(id)
    \/ nextId > 1 /\ bulkDelete(1..(nextId - 1))

SpecDeleteRace == InitBase /\ [][NextDeleteRace]_vars

\* C29: an update never re-creates a deleted transaction. Whatever the order
\* of the steps of update (store update, then read-back) and of delete or
\* bulkDelete, a key that was handed out and has no record never has one
\* again, a delete leaves no record under its key, and update resolves only
\* with the record that the store holds at its read-back and rejects when
\* there is none.
C29_UpdateNeverRecreates ==
    [][/\ \A id \in 1..(nextId - 1) :
             tableGet(store, id) = <<>> => tableGet(store', id) = <<>>
       /\ \A id \in 1..(nextId - 1) :
             deleteTransaction(id) => tableGet(store', id) = <<>>
       /\ bulkDelete(1..(nextId - 1)) => store' = <<>>
       /\ \A i \in 1..Len(calls) :
             updateReadBack(i) =>
                LET held == tableGet(store, calls[i].input[1].id)
                IN  IF held = <<>>
                    THEN /\ calls'[i].status = "rejected"
                         /\ outcome' = rejected("Transaction not found")
                    ELSE /\ calls'[i].status = "resolved"
                         /\ outcome' = resolved(held)]_vars

\* the transaction was deleted between the update's two steps: the call is
\* at its read-back with the key gone, and the store was not refilled
C29_Witness ==
    /\ Len(calls) = 1
    /\ calls[1].pc = "read"
    /\ calls[1].input[1].id = 1
    /\ nextId = 2
    /\ store = <<>>
    /\ outcome = resolved(<<>>)

\* a second state of C29: that read-back found nothing and update rejected
C29_WitnessRejected ==
    /\ Len(calls) = 1
    /\ calls[1].status = "rejected"
    /\ store = <<>>
    /\ nextId = 2
    /\ outcome = rejected("Transaction not found")
    /\ error.useTransactions = "Transaction not found"

\* ------------------------------------------------------------------------
\* The derived kind against the direction of the statistics
\* ------------------------------------------------------------------------
\* the tracked transactions of the target month, as useStats selects them
TrackedOfMonth == monthTransactions(Transactions, yearMonth, now)

\* those of them that the list shows under a type filter
ListedAs(kind) ==
    filteredTransactions(TrackedOfMonth, [noFilters EXCEPT !.type = kind])

AmountsOf(transactions) ==
    SumOf([i \in 1..Len(transactions) |-> transactions[i].amount],
          1..Len(transactions))

\* C30: the derived kind and the statistics agree on direction. Each tracked
\* transaction of the target month of kind 'income' adds its amount to
\* totalIncome, each of kind 'expense' or 'transfer' adds it to
\* totalExpenses, and the amounts listed under the 'income' type filter sum to
\* totalIncome.
C30_KindAgreesWithStats ==
    /\ \A tx \in Range(TrackedOfMonth) :
          IF getTransactionType(tx) = "income"
          THEN monthTotals(<<tx>>) = [income |-> tx.amount, expenses |-> 0]
          ELSE monthTotals(<<tx>>) = [income |-> 0, expenses |-> Abs(tx.amount)]
    /\ AmountsOf(ListedAs("income")) = Stats.totalIncome

\* the state that breaks C30: a tracked Salary transaction of the month with
\* a negative amount is listed as income and counted in totalExpenses
C30_NegativeSalary ==
    /\ Len(store) = 1
    /\ store[1].category = "Salary"
    /\ store[1].amount = -50
    /\ ListedAs("income") = store
    /\ Stats.totalIncome = 0
    /\ Stats.totalExpenses = 50

\* what does hold of C30: the 'expense' and 'transfer' kinds are counted in
\* totalExpenses, and a positive amount is of kind 'income' and counted in
\* totalIncome
C30_ExpenseSideAgrees ==
    \A tx \in Range(TrackedOfMonth) :
        /\ getTransactionType(tx) \in {"expense", "transfer"}
              => monthTotals(<<tx>>) = [income |-> 0, expenses |-> Abs(tx.amount)]
        /\ tx.amount > 0
              => /\ getTransactionType(tx) = "income"
                 /\ monthTotals(<<tx>>) = [income |-> tx.amount, expenses |-> 0]

====
